---- MODULE Spec2Model ----
(***************************************************************************)
(* A model of sefara: expression evaluation (Resource.evaluate), Tags and  *)
(* Resource construction and mutation, the ResourceCollection queries      *)
(* (filter, singleton, name lookup), the JSON round trip, the select       *)
(* command's row generator, hook dispatch (run_hook), the checker          *)
(* aggregator (hooks.check), the transforms of the environment, and the    *)
(* loaders (load with its operations, loads of the python format with the  *)
(* module-level lists of exporting).                                       *)
(***************************************************************************)
EXTENDS Integers, Sequences, FiniteSets, TLC

\* ------------------------------------------------------------------ bounds
MaxRes == 3
MaxFields == 2
MaxCheckers == 2

\* ------------------------------------------------------------------ values
\* A Python value is a record [t, v]: its type and its printed form.
None == [t |-> "none", v |-> "None"]
PyTrue == [t |-> "bool", v |-> "True"]
PyFalse == [t |-> "bool", v |-> "False"]
PyInt(s) == [t |-> "int", v |-> s]
PyStr(s) == [t |-> "str", v |-> s]
PyList(s) == [t |-> "list", v |-> s]
PyBool(b) == IF b THEN PyTrue ELSE PyFalse

\* Resource.RAISE: the sentinel object that is the default of error_value.
RAISE == [t |-> "sentinel", v |-> "RAISE"]

\* The marker of an attribute a resource does not have.
Absent == [t |-> "absent", v |-> ""]

\* Python truthiness, as `if x.evaluate(expression)` applies it.
Truthy(x) ==
    CASE x.t = "none" -> FALSE
      [] x.t = "bool" -> x.v = "True"
      [] x.t = "int" -> x.v # "0"
      [] x.t = "str" -> x.v # ""
      [] x.t = "list" -> x.v # "[]"
      [] OTHER -> TRUE

\* ------------------------------------------------------------- resources
NameTable == <<"d1", "d2", "d3", "d4", "d5", "d6">>
Names == {NameTable[i] : i \in 1..(MaxRes + 1)}
ResIds == 1..MaxRes

\* A Resource is a record of its name, its Tags and one custom attribute,
\* path.
\* The content of src/test/data/ex1.py, cut to MaxRes resources.
Ex1Resource(i) ==
    [name |-> NameTable[i],
     tags |-> IF i = 1 THEN {"alpha"} ELSE {"alpha", "gamma"},
     path |-> IF i = 2 THEN Absent ELSE PyStr("a")]

\* ----------------------------------------------------------- expressions
\* A Python expression as a syntax tree, operator first.
EName(a) == <<"name", a>>
ETag(t) == <<"tag", t>>
EOnError(x) == <<"on_error", x>>
EOr(a, b) == <<"or", a, b>>
EAnd(a, b) == <<"and", a, b>>
ENot(a) == <<"not", a>>

\* The method calls tags.add('t') and resource.tags.discard('t').
ETagsAdd(t) == <<"tags.add", t>>

\* An expression passed to evaluate/filter: a string or a callable.
StrExpr(e) == <<"str", e>>
Callable(e) == <<"callable", e>>

EvOk(x, box) == [ok |-> TRUE, val |-> x, box |-> box, err |-> ""]

\* eval(expression, environment, self), with on_error writing error_box.
\* Its locals are the resource mapping, so a name the resource lacks is a
\* NameError;
\* tags.t is Tags.__getattr__, whether t is in the set.
RECURSIVE Eval(_, _, _), Effect(_, _)
Eval(e, r, box) ==
    CASE e[1] = "name" ->
           (CASE e[2] = "name" -> EvOk(PyStr(r.name), box)
              [] e[2] = "path" /\ r.path # Absent -> EvOk(r.path, box)
              [] OTHER -> [ok |-> FALSE, val |-> None, box |-> box, err |-> e[2]])
      [] e[1] = "tag" -> EvOk(PyBool(e[2] \in r.tags), box)
      [] e[1] = "on_error" -> EvOk(None, e[2])
      [] e[1] \in {"tags.add", "resource.tags.discard"} -> EvOk(None, box)
      [] e[1] = "not" ->
            LET a == Eval(e[2], r, box)
            IN  IF a.ok THEN EvOk(PyBool(~Truthy(a.val)), a.box) ELSE a
      [] e[1] = "or" ->
            LET a == Eval(e[2], r, box)
            IN  IF ~a.ok \/ Truthy(a.val) THEN a
                ELSE Eval(e[3], Effect(e[2], r), a.box)
      [] e[1] = "and" ->
            LET a == Eval(e[2], r, box)
            IN  IF ~a.ok \/ ~Truthy(a.val) THEN a
                ELSE Eval(e[3], Effect(e[2], r), a.box)

\* The resource after eval(expression, environment, self): the namespace
\* holds the resource's own Tags under tags and the resource itself under
\* resource, so a method call in the expression changes them.
Effect(e, r) ==
    CASE e[1] = "tags.add" -> [r EXCEPT !.tags = @ \cup {e[2]}]
      [] e[1] = "resource.tags.discard" -> [r EXCEPT !.tags = @ \ {e[2]}]
      [] e[1] = "not" -> Effect(e[2], r)
      [] e[1] = "or" ->
            LET a == Eval(e[2], r, RAISE)
            IN  IF ~a.ok \/ Truthy(a.val) THEN Effect(e[2], r)
                ELSE Effect(e[3], Effect(e[2], r))
      [] e[1] = "and" ->
            LET a == Eval(e[2], r, RAISE)
            IN  IF ~a.ok \/ ~Truthy(a.val) THEN Effect(e[2], r)
                ELSE Effect(e[3], Effect(e[2], r))
      [] OTHER -> r

Returned(x) == [ok |-> TRUE, val |-> x, err |-> <<>>]
Raised(kind, info) == [ok |-> FALSE, val |-> None, err |-> <<kind>> \o info]

\* str(e) of the exception a missing attribute raises: a NameError in an
\* eval'd string, an AttributeError in a callable reading resource.<a>.
OriginalError(expression, a) ==
    IF expression[1] = "str" THEN "NameError: " \o a ELSE "AttributeError: " \o a

\* evaluate looking at the error_value argument instead of the box.
evaluateIgnoringBox(r, expression, error_value) ==
    LET run == Eval(expression[2], r, error_value)
    IN  IF run.ok THEN Returned(run.val)
        ELSE IF error_value # RAISE THEN Returned(error_value)
        ELSE Raised("ValueError",
                    <<OriginalError(expression, run.err), expression, r.name>>)

\* evaluate letting the failure of a callable through as it is.
evaluateBareCallable(r, expression, error_value) ==
    LET run == Eval(expression[2], r, error_value)
    IN  IF run.ok THEN Returned(run.val)
        ELSE IF expression[1] = "callable"
        THEN Raised("AttributeError", <<OriginalError(expression, run.err)>>)
        ELSE IF run.box # RAISE THEN Returned(run.box)
        ELSE Raised("ValueError",
                    <<OriginalError(expression, run.err), expression, r.name>>)

\* Resource.evaluate(expression, error_value): a callable is called with
\* the resource and has no on_error; a failure returns the boxed value
\* unless the box still holds RAISE, and then raises a ValueError made of
\* the original error, the expression and the resource.
evaluate(r, expression, error_value) ==
    LET run == Eval(expression[2], r, error_value)
    IN  IF run.ok THEN Returned(run.val)
        ELSE IF run.box # RAISE THEN Returned(run.box)
        ELSE Raised("ValueError",
                    <<OriginalError(expression, run.err), expression, r.name>>)

\* ----------------------------------------------------------- collections
\* An OrderedDict is a sequence of <<key, resource id>> pairs.
Keys(d) == {d[i][1] : i \in 1..Len(d)}
KeyIndex(d, k) == CHOOSE i \in 1..Len(d) : d[i][1] = k
Values(d) == [i \in 1..Len(d) |-> d[i][2]]

\* collections.OrderedDict((x.name, x) for x in resources); d[k] = v on
\* a key that is present keeps the key's position.
RECURSIVE OrderedDict(_, _)
OrderedDict(heap, ids) ==
    IF ids = <<>> THEN <<>>
    ELSE LET n == Len(ids)
             d == OrderedDict(heap, SubSeq(ids, 1, n - 1))
             k == heap[ids[n]].name
             v == ids[n]
         IN  IF k \in Keys(d) THEN [d EXCEPT ![KeyIndex(d, k)] = <<k, v>>]
             ELSE Append(d, <<k, v>>)

\* ResourceCollection(resources, filename), resources a list.
ResourceCollection(heap, ids, filename) ==
    [resources |-> OrderedDict(heap, ids), filename |-> filename]

\* iter(collection): the values of the dictionary, in order.
Iter(c) == Values(c.resources)

\* GetItem trusting a dictionary hit without comparing result.name.
GetItemStale(heap, c, key) ==
    LET d == c.resources
        rebuilt == OrderedDict(heap, Iter(c))
    IN  IF key \in Keys(d)
        THEN [ok |-> TRUE, id |-> d[KeyIndex(d, key)][2], err |-> "", resources |-> d]
        ELSE IF key \in Keys(rebuilt)
        THEN [ok |-> TRUE, id |-> rebuilt[KeyIndex(rebuilt, key)][2], err |-> "",
              resources |-> rebuilt]
        ELSE [ok |-> FALSE, id |-> 0, err |-> "KeyError", resources |-> rebuilt]

\* ResourceCollection.__getitem__ with a string key: the result and the
\* dictionary the collection holds afterwards (rebuilt after a miss).
GetItem(heap, c, key) ==
    LET d == c.resources
        hit == key \in Keys(d) /\ heap[d[KeyIndex(d, key)][2]].name = key
        rebuilt == OrderedDict(heap, Iter(c))
    IN  IF hit
        THEN [ok |-> TRUE, id |-> d[KeyIndex(d, key)][2], err |-> "", resources |-> d]
        ELSE IF key \in Keys(rebuilt)
        THEN [ok |-> TRUE, id |-> rebuilt[KeyIndex(rebuilt, key)][2], err |-> "",
              resources |-> rebuilt]
        ELSE [ok |-> FALSE, id |-> 0, err |-> "KeyError", resources |-> rebuilt]

\* FilterList keeping every resource whose value is not None.
RECURSIVE FilterListNotNone(_, _, _)
FilterListNotNone(heap, ids, expression) ==
    IF ids = <<>> THEN [ok |-> TRUE, ids |-> <<>>, err |-> <<>>]
    ELSE LET v == evaluate(heap[Head(ids)], expression, RAISE)
             rest == FilterListNotNone(heap, Tail(ids), expression)
         IN  IF ~v.ok THEN [ok |-> FALSE, ids |-> <<>>, err |-> v.err]
             ELSE IF ~rest.ok THEN rest
             ELSE IF v.val # None
             THEN [ok |-> TRUE, ids |-> <<Head(ids)>> \o rest.ids, err |-> <<>>]
             ELSE rest

\* The resources of ids, in order, on which evaluate is truthy; the first
\* failure ends the comprehension.
RECURSIVE FilterList(_, _, _)
FilterList(heap, ids, expression) ==
    IF ids = <<>> THEN [ok |-> TRUE, ids |-> <<>>, err |-> <<>>]
    ELSE LET v == evaluate(heap[Head(ids)], expression, RAISE)
             rest == FilterList(heap, Tail(ids), expression)
         IN  IF ~v.ok THEN [ok |-> FALSE, ids |-> <<>>, err |-> v.err]
             ELSE IF ~rest.ok THEN rest
             ELSE IF Truthy(v.val)
             THEN [ok |-> TRUE, ids |-> <<Head(ids)>> \o rest.ids, err |-> <<>>]
             ELSE rest

NoCollection == [resources |-> <<>>, filename |-> ""]

\* filter building its collection from copies of the resources it keeps.
filterCopying(heap, c, expression) ==
    LET kept == FilterList(heap, Iter(c), expression)
    IN  IF kept.ok
        THEN [ok |-> TRUE,
              coll |-> [resources |-> [k \in 1..Len(kept.ids) |->
                                         <<heap[kept.ids[k]].name, kept.ids[k] + MaxRes>>],
                        filename |-> c.filename],
              err |-> <<>>]
        ELSE [ok |-> FALSE, coll |-> NoCollection, err |-> kept.err]

\* ResourceCollection.filter(expression)
filter(heap, c, expression) ==
    LET kept == FilterList(heap, Iter(c), expression)
    IN  IF kept.ok
        THEN [ok |-> TRUE, coll |-> ResourceCollection(heap, kept.ids, c.filename),
              err |-> <<>>]
        ELSE [ok |-> FALSE, coll |-> NoCollection, err |-> kept.err]

\* ------------------------------------------------------------------ state
VARIABLES
    res,    \* the Resource objects, by identity
    coll,   \* the ResourceCollection under test
    out,    \* what the last operation returned or raised
    chk,    \* the generator that check() returned
    environ, \* os.environ: the hook variable the operation reads, split at ":"
    cwd,     \* os.getcwd(): the working directory of the process
    module   \* the module-level variables of sefara.resource and sefara.exporting

vars == <<res, coll, out, chk, environ, cwd, module>>

\* The directory the process is started in.
WorkDir == "/work"

\* The module-level variables once sefara is imported.
Imported == [NEXT_RESOURCE_NUM |-> 1, _EXPORTED_RESOURCES |-> <<>>, _TRANSFORMS |-> <<>>]

NoOut == [op |-> "none"]
NoCheck == [state |-> "none"]
\* "".split(":") of a variable that is not set
Unset == <<"">>

\* The collection loaded from ex1.py.
InitEx1 ==
    /\ res = [i \in ResIds |-> Ex1Resource(i)]
    /\ coll = ResourceCollection(res, [i \in 1..MaxRes |-> i], "ex1.py")
    /\ out = NoOut
    /\ chk = NoCheck
    /\ environ = Unset
    /\ cwd = WorkDir
    /\ module = Imported

\* ------------------------------------------- renames and lookups by name
\* A transform's statement r.name = n, n not used by any other resource.
Rename(i, n) ==
    /\ \A j \in ResIds : res[j].name # n
    /\ res' = [res EXCEPT ![i].name = n]
    /\ UNCHANGED <<coll, out, chk, environ, cwd, module>>

\* collection[key]
Lookup(key) ==
    LET got == GetItem(res, coll, key)
    IN  /\ coll' = [coll EXCEPT !.resources = got.resources]
        /\ out' = [op |-> "getitem", key |-> key, ok |-> got.ok, id |-> got.id,
                   err |-> got.err]
        /\ UNCHANGED <<res, chk, environ, cwd, module>>

Next ==
    \/ \E i \in ResIds, n \in Names : Rename(i, n)
    \/ \E key \in Names : Lookup(key)

Spec == InitEx1 /\ [][Next]_vars

\* ------------------------------------------------------ filter and load
\* The expressions the queries are run with.  on_error(...) comes first
\* and is joined with `or`, as the docstring of evaluate asks.
Atoms == {EName("name"), EName("path"), ETag("gamma")}
Negated == {ENot(a) : a \in Atoms}
Binary == {EAnd(a, b) : a, b \in Atoms} \cup {EOr(a, b) : a, b \in Atoms}
ChainBodies ==
    Atoms \cup Negated
        \cup {EOr(c, a) : c \in {EOnError(PyTrue), EOnError(PyFalse)}, a \in Atoms}

\* A freshly loaded collection of n resources whose tags and path vary.
QueryTags == {{"alpha"}, {"alpha", "gamma"}}
Loaded(n, paths) ==
    /\ \E tags \in [1..n -> QueryTags], path \in [1..n -> paths] :
         res = [i \in ResIds |->
                  IF i <= n
                  THEN [name |-> NameTable[i], tags |-> tags[i], path |-> path[i]]
                  ELSE Ex1Resource(i)]
    /\ coll = ResourceCollection(res, [i \in 1..n |-> i], "ex1.py")
    /\ out = NoOut
    /\ chk = NoCheck
    /\ environ = Unset
    /\ cwd = WorkDir
    /\ module = Imported

InitFilter == \E n \in 0..MaxRes : Loaded(n, ({Absent, PyStr("a"), PyInt("0")}))

\* collection.filter(expression)
Filter(expression) ==
    LET got == filter(res, coll, expression)
    IN  /\ out = NoOut
        /\ out' = [op |-> "filter", expression |-> expression, ok |-> got.ok,
                   coll |-> got.coll, err |-> got.err]
        /\ UNCHANGED <<res, coll, chk, environ, cwd, module>>

\* ApplyFilters calling rc.filter(value) without keeping its result.
RECURSIVE ApplyFiltersDiscarded(_, _, _)
ApplyFiltersDiscarded(heap, c, operations) ==
    IF operations = <<>> THEN [ok |-> TRUE, coll |-> c, err |-> <<>>]
    ELSE LET got == filter(heap, c, Head(operations))
         IN  IF got.ok THEN ApplyFiltersDiscarded(heap, c, Tail(operations))
             ELSE got

\* The loop of load() over the operations of the URL fragment
\* "#filter=e1&filter=e2": rc = rc.filter(value), one after the other.
RECURSIVE ApplyFilters(_, _, _)
ApplyFilters(heap, c, operations) ==
    IF operations = <<>> THEN [ok |-> TRUE, coll |-> c, err |-> <<>>]
    ELSE LET got == filter(heap, c, Head(operations))
         IN  IF got.ok THEN ApplyFilters(heap, got.coll, Tail(operations))
             ELSE got

LoadFilters(e1, e2) ==
    LET got == ApplyFilters(res, coll, <<StrExpr(e1), StrExpr(e2)>>)
    IN  /\ out = NoOut
        /\ out' = [op |-> "chain", e1 |-> e1, e2 |-> e2, ok |-> got.ok,
                   coll |-> got.coll, err |-> got.err]
        /\ UNCHANGED <<res, coll, chk, environ, cwd, module>>

NextFilter ==
    \/ \E expression \in {StrExpr(b) : b \in ChainBodies \cup Binary}
                          \cup {Callable(b) : b \in Atoms \cup Negated \cup Binary} :
          Filter(expression)
    \/ \E e1 \in ChainBodies, e2 \in ChainBodies : LoadFilters(e1, e2)

SpecFilter == InitFilter /\ [][NextFilter]_vars

\* --------------------------------------------------------------- evaluate
GuardedBy(values) == {EOr(EOnError(x), a) : x \in values, a \in Atoms}
ErrorValues == {RAISE, None, PyInt("0")}

InitEval == Loaded(1, ({Absent, PyStr("a"), PyInt("0"), PyList("[1, 2]")}))

\* resource.evaluate(expression, error_value)
Evaluate(i, expression, error_value) ==
    LET got == evaluate(res[i], expression, error_value)
    IN  /\ out = NoOut
        /\ out' = [op |-> "evaluate", id |-> i, expression |-> expression,
                   error_value |-> error_value, ok |-> got.ok, val |-> got.val,
                   err |-> got.err]
        /\ UNCHANGED <<res, coll, chk, environ, cwd, module>>

NextEval ==
    \E i \in ResIds,
       expression \in
           {StrExpr(b) :
              b \in Atoms \cup Negated
                      \cup GuardedBy({PyTrue, PyFalse, PyInt("-17")})
                      \cup {EOr(EOnError(x), EOr(EOnError(y), a)) :
                               x \in {PyTrue, PyInt("-17")},
                               y \in {PyFalse, PyInt("-17")}, a \in Atoms}
                      \cup {EOr(a, EOnError(x)) : a \in Atoms, x \in {PyInt("-17")}}}
               \cup {Callable(b) : b \in Atoms \cup Negated},
       error_value \in ErrorValues :
        Evaluate(i, expression, error_value)

SpecEval == InitEval /\ [][NextEval]_vars

\* ------------------------------------------------------ the select command
\* " ".join(s) of a string s: its characters, separated by spaces.
JoinChars(s) ==
    CASE s = "" -> ""
      [] s = "a" -> "a"
      [] s = "b" -> "b"
      [] s = "d1" -> "d 1"
      [] s = "d2" -> "d 2"
      [] s = "d3" -> "d 3"
      [] s = "d4" -> "d 4"
      [] s = "d5" -> "d 5"
      [] s = "d6" -> "d 6"

Extracted(s) == [ok |-> TRUE, s |-> s, err |-> ""]

\* extractors["string"]: str(x) if x is not None else ''
ExtractString(x) == Extracted(IF x = None THEN "" ELSE x.v)

\* extractors["joined"]: " ".join, which takes strings and iterables of
\* strings only.
ExtractJoined(x) ==
    IF x.t = "str" THEN Extracted(JoinChars(x.v))
    ELSE [ok |-> FALSE, s |-> "", err |-> "TypeError"]

\* extractors["json"]: json.dumps(datum, default=default)
ExtractJson(x) ==
    CASE x.t = "str" -> Extracted("\"" \o x.v \o "\"")
      [] x.t = "none" -> Extracted("null")
      [] x.t = "bool" -> Extracted(IF x.v = "True" THEN "true" ELSE "false")
      [] OTHER -> Extracted(x.v)

\* The extractor of a field; "best" is extract_best.
Extract(kind, x) ==
    CASE kind = "best" -> (IF x.t \in {"str", "bool", "none"} THEN ExtractString(x)
                           ELSE IF x.t = "list" THEN ExtractJoined(x)
                           ELSE ExtractJson(x))
      [] kind = "string" -> ExtractString(x)
      [] kind = "joined" -> ExtractJoined(x)
      [] kind = "json" -> ExtractJson(x)

\* The body of the loop over the resources in generate_rows: the cells of
\* one row, left to right.  status is "row" (the else branch yields it),
\* "skipped" (break) or "raised".
RECURSIVE RowOf(_, _, _, _)
RowOf(r, fields, stop_on_error, skip_errors) ==
    IF fields = <<>>
    THEN [status |-> "row", cells |-> <<>>, errors |-> <<>>, err |-> <<>>]
    ELSE LET n == Len(fields)
             before == RowOf(r, SubSeq(fields, 1, n - 1), stop_on_error, skip_errors)
             got == evaluate(r, StrExpr(fields[n][2]), RAISE)
             value == IF got.ok THEN got.val ELSE None
             cell == Extract(fields[n][1], value)
         IN  IF before.status # "row" THEN before
             ELSE IF ~got.ok /\ stop_on_error
             THEN [before EXCEPT !.status = "raised", !.err = got.err]
             ELSE IF ~got.ok /\ skip_errors
             THEN [before EXCEPT !.status = "skipped"]
             ELSE IF ~cell.ok
             THEN [before EXCEPT !.status = "raised", !.err = <<cell.err>>]
             ELSE [status |-> "row",
                   cells |-> Append(before.cells, cell.s),
                   errors |-> IF got.ok THEN before.errors
                              ELSE Append(before.errors, got.err),
                   err |-> <<>>]

\* generate_rows(), consumed to its end: the rows it yielded, each with
\* the resource it is of, the errors list, and the exception if one ended
\* it.
RECURSIVE GenerateRows(_, _, _, _, _)
GenerateRows(heap, ids, fields, stop_on_error, skip_errors) ==
    IF ids = <<>> THEN [ok |-> TRUE, rows |-> <<>>, errors |-> <<>>, err |-> <<>>]
    ELSE LET n == Len(ids)
             before == GenerateRows(heap, SubSeq(ids, 1, n - 1), fields,
                                    stop_on_error, skip_errors)
             row == RowOf(heap[ids[n]], fields, stop_on_error, skip_errors)
         IN  IF ~before.ok THEN before
             ELSE IF row.status = "raised"
             THEN [before EXCEPT !.ok = FALSE, !.err = row.err]
             ELSE IF row.status = "skipped" THEN before
             ELSE [before EXCEPT
                     !.rows = Append(@, [id |-> ids[n], cells |-> row.cells]),
                     !.errors = @ \o row.errors]

InitSelect ==
    \E n \in 0..MaxRes :
        /\ \E path \in [1..n -> ({Absent, PyStr("a"), PyList("[1, 2]")})] :
             res = [i \in ResIds |->
                      IF i <= n THEN [Ex1Resource(i) EXCEPT !.path = path[i]]
                      ELSE Ex1Resource(i)]
        /\ coll = ResourceCollection(res, [i \in 1..n |-> i], "ex1.py")
        /\ out = NoOut
        /\ chk = NoCheck
        /\ environ = Unset
        /\ cwd = WorkDir
        /\ module = Imported

\* sefara-select --field ... [--stop-on-error] [--skip-errors]
Select(fields, stop_on_error, skip_errors) ==
    LET got == GenerateRows(res, Iter(coll), fields, stop_on_error, skip_errors)
    IN  /\ out = NoOut
        /\ out' = [op |-> "select", fields |-> fields,
                   stop_on_error |-> stop_on_error, skip_errors |-> skip_errors,
                   ok |-> got.ok, rows |-> got.rows, errors |-> got.errors,
                   err |-> got.err]
        /\ UNCHANGED <<res, coll, chk, environ, cwd, module>>

NextSelect ==
    \E fields \in
           UNION {[1..k ->
                      {<<kind, EName("path")>> :
                          kind \in {"best", "string", "joined", "json"}}
                          \cup {<<"best", EOr(EOnError(PyInt("-17")), EName("path"))>>,
                                <<"best", EName("name")>>, <<"joined", EName("name")>>}] :
                  k \in 1..MaxFields},
       stop_on_error \in BOOLEAN, skip_errors \in BOOLEAN :
        Select(fields, stop_on_error, skip_errors)

SpecSelect == InitSelect /\ [][NextSelect]_vars

\* ------------------------------------------------------------------ check
\* The files open() finds.
Exists(path) == path = PyStr("a")

\* docs/hook_always_success.py, FAILURE_NUM not set: every resource passes.
AlwaysSuccess(heap, ids) == [k \in 1..Len(ids) |-> <<ids[k], TRUE, None>>]

\* docs/hook_always_success.py with FAILURE_NUM=0: the first resource is
\* reported only when its path cannot be opened.
FailureNumZero(heap, ids) ==
    IF ids = <<>> THEN <<>>
    ELSE (IF Exists(heap[ids[1]].path) THEN <<>>
          ELSE <<<<ids[1], TRUE, PyStr("Couldn't open path")>>>>)
         \o AlwaysSuccess(heap, Tail(ids))

\* docs/hook_always_success.py with FAILURE_NUM=1: the second resource is
\* reported only when its path cannot be opened.
FailureNumOne(heap, ids) ==
    IF Len(ids) < 2 THEN AlwaysSuccess(heap, ids)
    ELSE <<<<ids[1], TRUE, None>>>>
         \o (IF Exists(heap[ids[2]].path) THEN <<>>
             ELSE <<<<ids[2], TRUE, PyStr("Couldn't open path")>>>>)
         \o AlwaysSuccess(heap, SubSeq(ids, 3, Len(ids)))

\* docs/example_hook.py: resources with a path are attempted.
ExampleHook(heap, ids) ==
    [k \in 1..Len(ids) |->
        IF heap[ids[k]].path = Absent
        THEN <<ids[k], FALSE, PyStr("No path specified.")>>
        ELSE IF Exists(heap[ids[k]].path) THEN <<ids[k], TRUE, None>>
        ELSE <<ids[k], TRUE, PyStr("Couldn't open path")>>]

\* A checker that walks the collection backwards.
Reversed(heap, ids) ==
    [k \in 1..Len(ids) |-> <<ids[Len(ids) + 1 - k], TRUE, None>>]

HookOutput(file, heap, ids) ==
    CASE file = "ok.py" -> AlwaysSuccess(heap, ids)
      [] file = "path.py" -> ExampleHook(heap, ids)
      [] file = "first.py" -> FailureNumZero(heap, ids)
      [] file = "second.py" -> FailureNumOne(heap, ids)
      [] file = "rev.py" -> Reversed(heap, ids)
      [] file = "none.py" -> <<>>

\* e.strip() of an entry of the split variable.
Strip(e) ==
    CASE e = " " -> ""
      [] e = " ok.py" -> "ok.py"
      [] e = "rev.py " -> "rev.py"
      [] e = " bar.py" -> "bar.py"
      [] OTHER -> e

\* e.strip() for e in ....split(":") if e.strip()
RECURSIVE EnvironmentCheckers(_)
EnvironmentCheckers(entries) ==
    IF entries = <<>> THEN <<>>
    ELSE (IF Strip(Head(entries)) # "" THEN <<Strip(Head(entries))>> ELSE <<>>)
         \o EnvironmentCheckers(Tail(entries))

Min(S) == CHOOSE x \in S : \A y \in S : x <= y

\* CheckStart without `if not generators: raise NoCheckers()`.
CheckStartUnguarded(heap, c, g, entries) ==
    LET checkers == IF g.include_environment_checkers
                    THEN g.checkers \o EnvironmentCheckers(entries)
                    ELSE g.checkers
        generators == [k \in 1..Len(checkers) |->
                         [items |-> HookOutput(checkers[k], heap, Iter(c)), pos |-> 0]]
    IN  [g EXCEPT !.state = "started", !.checkers = checkers,
                  !.generators = generators, !.order = Iter(c)]

\* check() up to its loop, run by the first next(): the list is extended
\* in place, every checker is called through run_hook, and an empty list
\* of generators raises NoCheckers.
CheckStart(heap, c, g, entries) ==
    LET checkers == IF g.include_environment_checkers
                    THEN g.checkers \o EnvironmentCheckers(entries)
                    ELSE g.checkers
        generators == [k \in 1..Len(checkers) |->
                         [items |-> HookOutput(checkers[k], heap, Iter(c)), pos |-> 0]]
    IN  IF generators = <<>>
        THEN [g EXCEPT !.state = "raised", !.checkers = checkers,
                       !.err = <<"NoCheckers">>]
        ELSE [g EXCEPT !.state = "started", !.checkers = checkers,
                       !.generators = generators, !.order = Iter(c)]

\* TuplesOf labelling every result with the first checker.
TuplesOfFirstChecker(checkers, results) ==
    [k \in 1..Len(results) |-> <<checkers[1], results[k][2], results[k][3]>>]

\* (str(checkers[i]), attempted, error) for each result of a row
TuplesOf(checkers, results) ==
    [k \in 1..Len(results) |-> <<checkers[k], results[k][2], results[k][3]>>]

\* ZipNext taking an item from every generator that still has one.
ZipNextEvery(heap, g) ==
    IF g.it = Len(g.order) THEN [g EXCEPT !.state = "done"]
    ELSE LET expected == g.order[g.it + 1]
             K == Len(g.generators)
             exhausted == {k \in 1..K : g.generators[k].pos = Len(g.generators[k].items)}
             stop == IF exhausted = {} THEN K + 1 ELSE Min(exhausted)
             advanced == [k \in 1..K |->
                            IF k \notin exhausted THEN [g.generators[k] EXCEPT !.pos = @ + 1]
                            ELSE g.generators[k]]
             results == [k \in 1..K |-> g.generators[k].items[g.generators[k].pos + 1]]
             bad == {k \in 1..K : heap[results[k][1]] # heap[expected]}
             taken == [g EXCEPT !.it = @ + 1, !.generators = advanced]
         IN  IF stop <= K THEN [taken EXCEPT !.state = "done"]
             ELSE IF bad # {}
             THEN [taken EXCEPT
                     !.state = "raised",
                     !.err = <<"ValueError", Min(bad) - 1, g.checkers[Min(bad)],
                               heap[results[Min(bad)][1]].name, heap[expected].name>>]
             ELSE [taken EXCEPT
                     !.state = "suspended",
                     !.rows = Append(@, [resource |-> expected,
                                         tuples |-> TuplesOf(g.checkers, results)])]

\* One turn of `for row in zip(collection, *generators)` and its body, up
\* to the yield, the raise or the end of the loop.  zip takes the next
\* resource, then the next item of each generator in order, and ends at
\* the first that has none.
ZipNext(heap, g) ==
    IF g.it = Len(g.order) THEN [g EXCEPT !.state = "done"]
    ELSE LET expected == g.order[g.it + 1]
             K == Len(g.generators)
             exhausted == {k \in 1..K : g.generators[k].pos = Len(g.generators[k].items)}
             stop == IF exhausted = {} THEN K + 1 ELSE Min(exhausted)
             advanced == [k \in 1..K |->
                            IF k < stop THEN [g.generators[k] EXCEPT !.pos = @ + 1]
                            ELSE g.generators[k]]
             results == [k \in 1..K |-> g.generators[k].items[g.generators[k].pos + 1]]
             bad == {k \in 1..K : heap[results[k][1]] # heap[expected]}
             taken == [g EXCEPT !.it = @ + 1, !.generators = advanced]
         IN  IF stop <= K THEN [taken EXCEPT !.state = "done"]
             ELSE IF bad # {}
             THEN [taken EXCEPT
                     !.state = "raised",
                     !.err = <<"ValueError", Min(bad) - 1, g.checkers[Min(bad)],
                               heap[results[Min(bad)][1]].name, heap[expected].name>>]
             ELSE [taken EXCEPT
                     !.state = "suspended",
                     !.rows = Append(@, [resource |-> expected,
                                         tuples |-> TuplesOf(g.checkers, results)])]

EnvironChoices == {Unset, <<" ">>, <<" ok.py", "">>, <<"", "rev.py ">>}
InitCheck ==
    \E n \in 0..MaxRes :
        /\ \E path \in [1..n -> ({Absent, PyStr("a"), PyStr("b")})] :
             res = [i \in ResIds |->
                      IF i <= n THEN [Ex1Resource(i) EXCEPT !.path = path[i]]
                      ELSE Ex1Resource(i)]
        /\ coll = ResourceCollection(res, [i \in 1..n |-> i], "ex1.py")
        /\ out = NoOut
        /\ chk = NoCheck
        /\ environ \in EnvironChoices
        /\ cwd = WorkDir
        /\ module = Imported

\* hooks.check(collection, checkers, include_environment_checkers): the
\* call only makes the generator.
CheckCall(checkers, include_environment_checkers) ==
    /\ chk.state = "none"
    /\ chk' = [state |-> "created", given |-> checkers, checkers |-> checkers,
               include_environment_checkers |-> include_environment_checkers,
               generators |-> <<>>, order |-> <<>>, it |-> 0, rows |-> <<>>,
               err |-> <<>>]
    /\ UNCHANGED <<res, coll, out, environ, cwd, module>>

\* The consumer asks for the next row: next() on the generator check()
\* returned.
CheckNext ==
    /\ chk.state \in {"created", "suspended"}
    /\ chk' = IF chk.state = "created"
              THEN LET started == CheckStart(res, coll, chk, environ)
                   IN  IF started.state = "raised" THEN started
                       ELSE ZipNext(res, started)
              ELSE ZipNext(res, chk)
    /\ UNCHANGED <<res, coll, out, environ, cwd, module>>

NextCheck ==
    \/ \E checkers \in
              UNION {[1..k -> {"ok.py", "path.py", "first.py", "second.py", "rev.py",
                               "none.py"}] : k \in 0..MaxCheckers},
          include \in BOOLEAN :
          CheckCall(checkers, include)
    \/ CheckNext

SpecCheck == InitCheck /\ [][NextCheck]_vars

\* ------------------------------------------------- tags and construction
MaxTags == 2

\* vars(Tags): the names the class body of Tags binds.  The methods Tags
\* inherits from set (add, union, pop, ...) are not among them.
TagsVars ==
    {"__dict__", "__doc__", "__getattr__", "__init__", "__module__",
     "__repr__", "to_plain_types"}

\* Attributes every set object has, found before __getattr__ is asked.
SetMethods == {"add", "union", "pop"}

\* re.match('^[\w][\w-]*$', tag) is not None, on the tags used here.
MatchesTagPattern(tag) == tag \notin {"", "-a", "a b"}

TagStrings == {"alpha", "gamma", "a-b", "-a", "a b", "add", "union", "to_plain_types"}

\* check_valid_tag(tag): the error it raises, or "" when it returns.
check_valid_tag(tag) ==
    IF tag \in TagsVars
    THEN "ValueError: Invalid tag (may not be a method on set objects)"
    ELSE IF ~MatchesTagPattern(tag) THEN "ValueError: Invalid tag"
    ELSE ""

Range(s) == {s[i] : i \in 1..Len(s)}

\* Tags(tags), tags a list of strings: every tag is validated in order,
\* then the set is filled.
TagsInit(tags) ==
    LET bad == {i \in 1..Len(tags) : check_valid_tag(tags[i]) # ""}
    IN  IF bad = {} THEN [ok |-> TRUE, set |-> Range(tags), err |-> ""]
        ELSE [ok |-> FALSE, set |-> {}, err |-> check_valid_tag(tags[Min(bad)])]

\* Resource(name=name, tags=tags, path=path): fields['tags'] becomes
\* Tags(tags) before the mapping is filled.
ResourceInit(name, tags, path) ==
    LET t == TagsInit(tags)
    IN  IF t.ok
        THEN [ok |-> TRUE, r |-> [name |-> name, tags |-> t.set, path |-> path],
              err |-> ""]
        ELSE [ok |-> FALSE, r |-> [name |-> "", tags |-> {}, path |-> Absent],
              err |-> t.err]

TagLists == UNION {[1..k -> TagStrings] : k \in 0..MaxTags}

\* Tags(tags)
NewTags(tags) ==
    /\ out = NoOut
    /\ out' = [op |-> "Tags", given |-> tags, made |-> TagsInit(tags)]
    /\ UNCHANGED <<res, coll, chk, environ, cwd, module>>

\* Resource(name=name, tags=tags)
NewResource(name, tags) ==
    /\ out = NoOut
    /\ out' = [op |-> "Resource", given |-> tags,
               made |-> ResourceInit(name, tags, Absent)]
    /\ UNCHANGED <<res, coll, chk, environ, cwd, module>>

\* tags.s on the Tags just made: ordinary attribute lookup finds what the
\* set type and the Tags class define; __getattr__ is asked only for
\* every other name.
GetTagsAttribute(s) ==
    /\ out.op = "Tags" /\ out.made.ok
    /\ out' = [op |-> "tags.attribute", set |-> out.made.set, attribute |-> s,
               value |-> IF s \in SetMethods \cup TagsVars
                         THEN [t |-> "method", v |-> s]
                         ELSE PyBool(s \in out.made.set)]
    /\ UNCHANGED <<res, coll, chk, environ, cwd, module>>

NextTags ==
    \/ \E tags \in TagLists : NewTags(tags)
    \/ \E name \in Names, tags \in TagLists : NewResource(name, tags)
    \/ \E s \in TagStrings : GetTagsAttribute(s)

SpecTags == InitEx1 /\ [][NextTags]_vars

\* -------------------------------------------------------- JSON round trip
PyDict(s) == [t |-> "dict", v |-> s]

\* json.dumps(x) of an attribute value
JsonDumps(x) ==
    CASE x.t = "none" -> "null"
      [] x.t = "bool" -> (IF x.v = "True" THEN "true" ELSE "false")
      [] x.t = "str" -> "\"" \o x.v \o "\""
      [] x.t = "dict" -> (IF x.v = "{'k': [1, 2]}" THEN "{\"k\": [1, 2]}" ELSE "{}")
      [] OTHER -> x.v

\* json.loads(s, object_pairs_hook=OrderedDict) of a member's text
JsonLoads(s) ==
    CASE s = "null" -> None
      [] s = "true" -> PyTrue
      [] s = "false" -> PyFalse
      [] s = "\"a\"" -> PyStr("a")
      [] s = "0" -> PyInt("0")
      [] s = "[1, 2]" -> PyList("[1, 2]")
      [] s = "{\"k\": [1, 2]}" -> PyDict("{'k': [1, 2]}")
      [] OTHER -> PyDict("{}")

\* Resource.to_plain_types(): tags first, then every field but name and
\* tags; the values are written by json.dumps.
ResourceToPlainTypes(r, tags) ==
    [tags |-> tags,
     fields |-> IF r.path = Absent THEN <<>> ELSE <<<<"path", JsonDumps(r.path)>>>>]

\* ToJson writing an empty tag list for every resource.
ToJsonNoTags(heap, c, lists) ==
    LET d == OrderedDict(heap, Iter(c))
    IN  [k \in 1..Len(d) |-> <<d[k][1], ResourceToPlainTypes(heap[d[k][2]], <<>>)>>]

\* ResourceCollection.to_json(): result[resource.name] = plain form, for
\* each resource in order; lists[p] is list(tags) of the p-th resource.
ToJson(heap, c, lists) ==
    LET d == OrderedDict(heap, Iter(c))
        pos(id) == CHOOSE p \in 1..Len(Iter(c)) : Iter(c)[p] = id
    IN  [k \in 1..Len(d) |->
            <<d[k][1], ResourceToPlainTypes(heap[d[k][2]], lists[pos(d[k][2])])>>]

\* transform(collection, path): the hook file's transform() is run on the
\* resources of the collection.  bar.py is the transform of
\* test_transform_ex1_py_2, path.py gives every resource a path made of
\* its name as transform_ex1.py does, raise.py raises before it changes
\* any.
transform(heap, ids, path) ==
    LET changed ==
            CASE path = "bar.py" ->
                   [i \in DOMAIN heap |-> [heap[i] EXCEPT !.name = "bar-" \o @]]
              [] path = "path.py" ->
                   [i \in DOMAIN heap |-> [heap[i] EXCEPT !.path = PyStr(heap[i].name)]]
              [] OTHER -> heap
    IN  [ok |-> path # "raise.py",
         heap |-> [i \in DOMAIN heap |-> IF i \in Range(ids) THEN changed[i] ELSE heap[i]]]

\* transform_from_environment going on after a transform that raised.
RECURSIVE transform_from_environmentLenient(_, _, _)
transform_from_environmentLenient(heap, ids, entries) ==
    IF entries = <<>> THEN [ok |-> TRUE, heap |-> heap, ran |-> <<>>]
    ELSE LET t == Strip(Head(entries))
         IN  IF t = "" THEN transform_from_environmentLenient(heap, ids, Tail(entries))
             ELSE LET got == transform(heap, ids, t)
                      rest == transform_from_environmentLenient(got.heap, ids, Tail(entries))
                  IN  [rest EXCEPT !.ran = <<t>> \o @]

\* transform_from_environment(collection): the entries of the variable
\* are stripped and every non-blank one is run, one after the other; ran
\* lists the transforms that were started.
RECURSIVE transform_from_environment(_, _, _)
transform_from_environment(heap, ids, entries) ==
    IF entries = <<>> THEN [ok |-> TRUE, heap |-> heap, ran |-> <<>>]
    ELSE LET t == Strip(Head(entries))
         IN  IF t = "" THEN transform_from_environment(heap, ids, Tail(entries))
             ELSE LET got == transform(heap, ids, t)
                      rest == transform_from_environment(got.heap, ids, Tail(entries))
                  IN  IF ~got.ok THEN [ok |-> FALSE, heap |-> got.heap, ran |-> <<t>>]
                      ELSE [rest EXCEPT !.ran = <<t>> \o @]

\* loads(data, format="json", environment_transforms): the new resources
\* and the collection of them.
loads(doc, environment_transforms, entries) ==
    LET made == [k \in 1..Len(doc) |->
                    ResourceInit(doc[k][1], doc[k][2].tags,
                                 IF doc[k][2].fields = <<>> THEN Absent
                                 ELSE JsonLoads(doc[k][2].fields[1][2]))]
        heap == [k \in 1..Len(doc) |-> made[k].r]
        rc == ResourceCollection(heap, [k \in 1..Len(doc) |-> k], "None")
    IN  IF \E k \in 1..Len(doc) : ~made[k].ok
        THEN [ok |-> FALSE, res |-> <<>>, coll |-> NoCollection]
        ELSE [ok |-> TRUE,
              res |-> IF environment_transforms
                      THEN transform_from_environment(heap, Iter(rc), entries).heap
                      ELSE heap,
              coll |-> rc]

InitJson ==
    \E n \in 0..MaxRes,
       first \in {Absent, PyStr("a"), PyTrue, None, PyInt("0"), PyList("[1, 2]"),
                  PyDict("{'k': [1, 2]}")} :
        /\ res = [i \in ResIds |->
                    IF i = 1 THEN [Ex1Resource(i) EXCEPT !.path = first]
                    ELSE Ex1Resource(i)]
        /\ coll = ResourceCollection(res, [i \in 1..n |-> i], "ex1.py")
        /\ out = NoOut
        /\ chk = NoCheck
        /\ environ \in {Unset, <<" ">>, <<"bar.py">>}
        /\ cwd = WorkDir
        /\ module = Imported

\* A transform's statement r.name = n on a resource of the collection.
SetName(i, n) ==
    /\ out = NoOut
    /\ i \in Range(Iter(coll))
    /\ res' = [res EXCEPT ![i].name = n]
    /\ UNCHANGED <<coll, out, chk, environ, cwd, module>>

\* rc2 = loads(rc.to_json(), format="json"); list(tags) gives the members
\* of each tag set in some order.
RoundTrip ==
    /\ out = NoOut
    /\ \E lists \in [1..Len(Iter(coll)) ->
                       UNION {{l \in [1..Cardinality(T) -> T] : Range(l) = T} :
                              T \in QueryTags}] :
         /\ \A p \in 1..Len(Iter(coll)) : Range(lists[p]) = res[Iter(coll)[p]].tags
         /\ out' = [op |-> "roundtrip", json |-> ToJson(res, coll, lists),
                    rc2 |-> loads(ToJson(res, coll, lists), TRUE, environ)]
    /\ UNCHANGED <<res, coll, chk, environ, cwd, module>>

NextJson ==
    \/ \E i \in ResIds, n \in Names : SetName(i, n)
    \/ RoundTrip

SpecJson == InitJson /\ [][NextJson]_vars

\* ------------------------------------------- singleton and shared resources
\* singleton raising whenever the collection has more than one resource.
singletonStrict(heap, c, raise_on_multiple) ==
    IF Len(c.resources) # 1
    THEN [ok |-> FALSE, id |-> 0, err |-> <<"ValueError", Len(c.resources)>>,
          resources |-> c.resources]
    ELSE [ok |-> TRUE, id |-> Values(c.resources)[1], err |-> <<>>,
          resources |-> c.resources]

\* ResourceCollection.singleton(raise_on_multiple): the result, and the
\* dictionary the collection holds afterwards.  self[0] is
\* list(self.resources.values())[0].
singleton(heap, c, raise_on_multiple) ==
    IF Len(c.resources) = 0 \/ (raise_on_multiple /\ Len(c.resources) > 1)
    THEN [ok |-> FALSE, id |-> 0, err |-> <<"ValueError", Len(c.resources)>>,
          resources |-> c.resources]
    ELSE [ok |-> TRUE, id |-> Values(c.resources)[1], err |-> <<>>,
          resources |-> c.resources]

\* collection.singleton(raise_on_multiple)
Singleton(raise_on_multiple) ==
    LET got == singleton(res, coll, raise_on_multiple)
    IN  /\ out = NoOut
        /\ coll' = [coll EXCEPT !.resources = got.resources]
        /\ out' = [op |-> "singleton", raise_on_multiple |-> raise_on_multiple,
                   ok |-> got.ok, id |-> got.id, err |-> got.err]
        /\ UNCHANGED <<res, chk, environ, cwd, module>>

ViewExprs == {StrExpr(ETag("gamma")), StrExpr(EName("path")), Callable(ENot(ETag("gamma")))}

\* view = collection.filter(expression)
FilterView(expression) ==
    /\ expression \in ViewExprs
    /\ Filter(expression)

\* A transform's statement r.path = v, r reached through the filtered
\* collection ("view") or through the original one ("original").
SetPath(through, p, v) ==
    /\ out.op = "filter" /\ out.ok
    /\ p \in 1..Len(Iter(IF through = "view" THEN out.coll ELSE coll))
    /\ LET i == Iter(IF through = "view" THEN out.coll ELSE coll)[p]
       IN  /\ i \in ResIds
           /\ res' = [res EXCEPT ![i].path = v]
           /\ out' = [op |-> "filter, set", expression |-> out.expression,
                      coll |-> out.coll, through |-> through, id |-> i,
                      value |-> v]
    /\ UNCHANGED <<coll, chk, environ, cwd, module>>

NextViews ==
    \/ \E raise_on_multiple \in BOOLEAN : Singleton(raise_on_multiple)
    \/ \E expression \in ViewExprs : FilterView(expression)
    \/ \E through \in {"view", "original"}, p \in 1..MaxRes, v \in {PyStr("b"), PyInt("0")} :
         SetPath(through, p, v)

SpecViews == InitFilter /\ [][NextViews]_vars

\* ------------------------------------------------------------ hook dispatch
\* The hook references passed to run_hook: functions, and paths of files.
Callables == {"transformer", "failing"}

\* hasattr(path_or_callable, '__call__')
IsCallable(ref) == ref \in Callables

\* os.path.dirname(filename)
Dirname(filename) ==
    IF filename \in {"chdir.py"} THEN "" ELSE "hooks"

\* What the top-level code of a hook file does when it is executed, what
\* names it defines, and what the function it defines does when called.
FileExists(filename) == filename # "hooks/missing.py"
TopLevel(filename) ==
    CASE filename = "hooks/raise_top.py" -> "raise"
      [] filename \in {"hooks/chdir_top.py", "chdir.py"} -> "chdir"
      [] OTHER -> "def"
Defines(filename) == IF TopLevel(filename) = "raise" THEN {} ELSE {"transform"}
Body(ref) ==
    CASE ref \in {"hooks/raise_body.py", "failing"} -> "raise"
      [] ref = "hooks/chdir_body.py" -> "chdir"
      [] OTHER -> "return"

\* os.chdir(directory) from the working directory wd
ChDir(wd, directory) ==
    IF directory = "/tmp" \/ directory = WorkDir THEN directory
    ELSE wd \o "/" \o directory

\* exec_in_directory(filename): the file is read, then executed in its
\* directory; the finally clause goes back only if a directory was entered.
exec_in_directory(filename, wd) ==
    LET directory == Dirname(filename)
        entered == IF directory # "" THEN ChDir(wd, directory) ELSE wd
        left == IF TopLevel(filename) = "chdir" THEN ChDir(entered, "/tmp") ELSE entered
        restored == IF directory # "" THEN ChDir(left, wd) ELSE left
    IN  IF ~FileExists(filename)
        THEN [ok |-> FALSE, err |-> "IOError", cwd |-> wd, execs |-> <<>>, defines |-> {}]
        ELSE [ok |-> TopLevel(filename) # "raise", err |-> "RuntimeError",
              cwd |-> restored, execs |-> <<entered>>, defines |-> Defines(filename)]

\* function(collection, *args): what it received, the directory it ran
\* in, and the directory it left the process in.
Invoke(ref, c, args, wd, execs) ==
    [ok |-> Body(ref) # "raise",
     err |-> IF Body(ref) = "raise" THEN "RuntimeError" ELSE "",
     result |-> IF Body(ref) = "raise" THEN <<>> ELSE <<ref, c, args>>,
     cwd |-> IF Body(ref) = "chdir" THEN ChDir(wd, "/tmp") ELSE wd,
     execs |-> execs,
     calls |-> <<[function |-> ref, collection |-> c, args |-> args, cwd |-> wd]>>]

\* run_hook invoking a file's function without looking its name up.
run_hookAnyName(c, path_or_callable, name, args, wd) ==
    IF IsCallable(path_or_callable)
    THEN Invoke(path_or_callable, c, args, wd, <<>>)
    ELSE LET got == exec_in_directory(path_or_callable, wd)
         IN  IF ~got.ok
             THEN [ok |-> FALSE, err |-> got.err, result |-> <<>>, cwd |-> got.cwd,
                   execs |-> got.execs, calls |-> <<>>]
             ELSE Invoke(path_or_callable, c, args, got.cwd, got.execs)

\* run_hook(collection, path_or_callable, name, *args)
run_hook(c, path_or_callable, name, args, wd) ==
    IF IsCallable(path_or_callable)
    THEN Invoke(path_or_callable, c, args, wd, <<>>)
    ELSE LET got == exec_in_directory(path_or_callable, wd)
         IN  IF ~got.ok
             THEN [ok |-> FALSE, err |-> got.err, result |-> <<>>, cwd |-> got.cwd,
                   execs |-> got.execs, calls |-> <<>>]
             ELSE IF name \notin got.defines
             THEN [ok |-> FALSE, err |-> "AttributeError", result |-> <<>>,
                   cwd |-> got.cwd, execs |-> got.execs, calls |-> <<>>]
             ELSE Invoke(path_or_callable, c, args, got.cwd, got.execs)

InitHook ==
    \E n \in 0..MaxRes :
        /\ res = [i \in ResIds |-> Ex1Resource(i)]
        /\ coll = ResourceCollection(res, [i \in 1..n |-> i], "ex1.py")
        /\ out = NoOut
        /\ chk = NoCheck
        /\ environ = Unset
        /\ cwd \in {WorkDir, "/srv"}
        /\ module = Imported

\* collection.run_hook(path_or_callable, name, *args)
RunHook(path_or_callable, name, args) ==
    LET got == run_hook(coll, path_or_callable, name, args, cwd)
    IN  /\ out = NoOut
        /\ out' = [op |-> "run_hook", ref |-> path_or_callable, name |-> name,
                   args |-> args, before |-> cwd, ok |-> got.ok, err |-> got.err,
                   result |-> got.result, execs |-> got.execs, calls |-> got.calls]
        /\ cwd' = got.cwd
        /\ UNCHANGED <<res, coll, chk, environ, module>>

NextHook ==
    \E ref \in Callables
                 \cup {"hooks/ok.py", "hooks/raise_top.py", "hooks/raise_body.py",
                       "hooks/chdir_top.py", "hooks/chdir_body.py", "chdir.py",
                       "hooks/missing.py"},
       name \in {"transform", "check"}, args \in {<<>>, <<"x">>} :
        RunHook(ref, name, args)

SpecHook == InitHook /\ [][NextHook]_vars

\* ------------------------------------------------- mutation of a resource
\* The value stored under 'tags': a Tags, a plain list, another value, or
\* nothing after a deletion; members are the strings it holds.
TagsValue(kind, members) == [kind |-> kind, members |-> members]

\* r = Resource(name=name, tags=tags): the resource made, with the kind
\* of value it stores under 'tags'.
Construct(name, tags) ==
    /\ out = NoOut
    /\ ResourceInit(name, tags, Absent).ok
    /\ LET made == ResourceInit(name, tags, Absent)
       IN  out' = [op |-> "resource",
                   r |-> [name |-> made.r.name,
                          tags |-> TagsValue("Tags", made.r.tags),
                          path |-> made.r.path],
                   last |-> "Resource"]
    /\ UNCHANGED <<res, coll, chk, environ, cwd, module>>

\* r.path = v: Resource inherits attribute assignment from AttrMap.
SetAttribute(v) ==
    /\ out.op = "resource"
    /\ out' = [out EXCEPT !.r.path = v, !.last = "r.path = v"]
    /\ UNCHANGED <<res, coll, chk, environ, cwd, module>>

\* r.tags = value: stored as given, as every other attribute is.
SetTags(value) ==
    /\ out.op = "resource"
    /\ out' = [out EXCEPT !.r.tags = value, !.last = "r.tags = v"]
    /\ UNCHANGED <<res, coll, chk, environ, cwd, module>>

\* del r.path
DelAttribute ==
    /\ out.op = "resource"
    /\ out.r.path # Absent
    /\ out' = [out EXCEPT !.r.path = Absent, !.last = "del r.path"]
    /\ UNCHANGED <<res, coll, chk, environ, cwd, module>>

\* del r.tags
DelTags ==
    /\ out.op = "resource"
    /\ out.r.tags.kind # "absent"
    /\ out' = [out EXCEPT !.r.tags = TagsValue("absent", {}), !.last = "del r.tags"]
    /\ UNCHANGED <<res, coll, chk, environ, cwd, module>>

\* r.tags.add(tag): Tags inherits add from set.
TagsAdd(tag) ==
    /\ out.op = "resource"
    /\ out.r.tags.kind = "Tags"
    /\ Cardinality(out.r.tags.members \cup {tag}) <= MaxTags
    /\ out' = [out EXCEPT !.r.tags.members = @ \cup {tag}, !.last = "r.tags.add"]
    /\ UNCHANGED <<res, coll, chk, environ, cwd, module>>

\* r.tags.discard(tag)
TagsDiscard(tag) ==
    /\ out.op = "resource"
    /\ out.r.tags.kind = "Tags"
    /\ tag \in out.r.tags.members
    /\ out' = [out EXCEPT !.r.tags.members = @ \ {tag}, !.last = "r.tags.discard"]
    /\ UNCHANGED <<res, coll, chk, environ, cwd, module>>

NextMutate ==
    \/ \E name \in Names, tags \in TagLists : Construct(name, tags)
    \/ \E v \in {PyStr("b"), PyInt("0")} : SetAttribute(v)
    \/ \E value \in {TagsValue("Tags", {"gamma"}), TagsValue("list", {"alpha"}),
                     TagsValue("list", {"a b"}), TagsValue("int", {})} :
          SetTags(value)
    \/ DelAttribute
    \/ DelTags
    \/ \E tag \in TagStrings : TagsAdd(tag)
    \/ \E tag \in TagStrings : TagsDiscard(tag)

SpecMutate == InitEx1 /\ [][NextMutate]_vars

\* ------------------------------------------------- environment transforms
MaxEntries == 3

InitEnv ==
    \E n \in 0..MaxRes, k \in 1..MaxEntries :
        /\ res = [i \in ResIds |-> Ex1Resource(i)]
        /\ coll = ResourceCollection(res, [i \in 1..n |-> i], "ex1.py")
        /\ out = NoOut
        /\ chk = NoCheck
        /\ environ \in [1..k -> ({"", " ", "bar.py", " bar.py", "path.py", "raise.py"})]
        /\ cwd = WorkDir
        /\ module = Imported

\* collection.transform_from_environment()
TransformFromEnv ==
    LET got == transform_from_environment(res, Iter(coll), environ)
    IN  /\ out = NoOut
        /\ res' = got.heap
        /\ out' = [op |-> "transform_from_environment", ok |-> got.ok,
                   ran |-> got.ran, before |-> res]
        /\ UNCHANGED <<coll, chk, environ, cwd, module>>

NextEnv == TransformFromEnv

SpecEnv == InitEnv /\ [][NextEnv]_vars

\* ------------------------------------------------------ generated names
MaxMade == 3

\* name=None: the caller gives no name.
NoName == "<None>"

\* "resource-%d" % n
GeneratedName(n) == "resource-" \o ToString(n)

\* Resource.__init__ advancing the counter for every resource.
ResourceInitNumberedAlways(name, tags, path, NEXT) ==
    LET made == ResourceInit(IF name # NoName THEN name ELSE GeneratedName(NEXT), tags, path)
    IN  [ok |-> made.ok, r |-> made.r, err |-> made.err, NEXT |-> NEXT + 1]

\* Resource.__init__(name, **fields) with the module's counter: a resource
\* without a name takes "resource-N" and advances NEXT_RESOURCE_NUM, then
\* the tags are validated.
ResourceInitNumbered(name, tags, path, NEXT) ==
    LET made == ResourceInit(IF name # NoName THEN name ELSE GeneratedName(NEXT), tags, path)
    IN  [ok |-> made.ok, r |-> made.r, err |-> made.err,
         NEXT |-> IF name # NoName THEN NEXT ELSE NEXT + 1]

\* Resource(name=name, tags=tags), after the constructions before it
Make(name, tags) ==
    LET got == ResourceInitNumbered(name, tags, Absent, module.NEXT_RESOURCE_NUM)
        made == IF out = NoOut THEN <<>> ELSE out.made
    IN  /\ out.op \in {"none", "resources"}
        /\ Len(made) < MaxMade
        /\ module' = [module EXCEPT !.NEXT_RESOURCE_NUM = got.NEXT]
        /\ out' = [op |-> "resources",
                   made |-> Append(made, [given |-> name, ok |-> got.ok,
                                          name |-> got.r.name,
                                          before |-> module.NEXT_RESOURCE_NUM,
                                          after |-> got.NEXT])]
        /\ UNCHANGED <<res, coll, chk, environ, cwd>>

NextCounter ==
    \E name \in {NoName, "d1", "resource-2"}, tags \in {<<>>, <<"alpha">>, <<"a b">>} :
        Make(name, tags)

SpecCounter == InitEx1 /\ [][NextCounter]_vars

\* ------------------------------------------- what evaluation leaves behind

\* resource.evaluate(expression, error_value), with what it does to the
\* resource
EvaluateOn(i, expression, error_value) ==
    LET got == evaluate(res[i], expression, error_value)
    IN  /\ out = NoOut
        /\ i \in Range(Iter(coll))
        /\ res' = [res EXCEPT ![i] = Effect(expression[2], res[i])]
        /\ out' = [op |-> "evaluate", id |-> i, expression |-> expression,
                   error_value |-> error_value, ok |-> got.ok, val |-> got.val,
                   err |-> got.err, before |-> res[i]]
        /\ UNCHANGED <<coll, chk, environ, cwd, module>>

NextEffects ==
    \E i \in ResIds,
       expression \in
           {StrExpr(b) :
              b \in Atoms \cup GuardedBy({None})
                      \cup {ETagsAdd("gamma"), ETagsAdd("zeta"),
                            <<"resource.tags.discard", "alpha">>,
                            EOr(ETagsAdd("gamma"), ETag("gamma")),
                            EOr(EName("path"), ETagsAdd("zeta"))}},
       error_value \in ErrorValues :
        EvaluateOn(i, expression, error_value)

SpecEffects == InitFilter /\ [][NextEffects]_vars

\* ------------------------------------------------------------------- load
\* An optional list argument is [given, list], None being not given; a
\* transform given by the path of its file is <<"path", p>>.
\* The loop of load() over its operations: rc = rc.filter(value) or
\* hooks.transform(rc, value); ran lists the transforms that finished.  A
\* value that is not the path of a hook file cannot be opened.
RECURSIVE ApplyOperations(_, _, _)
ApplyOperations(heap, c, ops) ==
    IF ops = <<>> THEN [ok |-> TRUE, heap |-> heap, coll |-> c, ran |-> <<>>, err |-> ""]
    ELSE LET value == Head(ops)[2]
         IN  IF Head(ops)[1] = "filter"
             THEN LET Filtered(got) ==
                          IF got.ok THEN ApplyOperations(heap, got.coll, Tail(ops))
                          ELSE [ok |-> FALSE, heap |-> heap, coll |-> c, ran |-> <<>>,
                                err |-> "ValueError"]
                  IN  Filtered(filter(heap, c, value))
             ELSE IF value[1] # "path"
             THEN [ok |-> FALSE, heap |-> heap, coll |-> c, ran |-> <<>>, err |-> "IOError"]
             ELSE LET got == transform(heap, Iter(c), value[2])
                      rest == ApplyOperations(got.heap, c, Tail(ops))
                  IN  IF ~got.ok
                      THEN [ok |-> FALSE, heap |-> got.heap, coll |-> c, ran |-> <<>>,
                            err |-> "RuntimeError"]
                      ELSE [rest EXCEPT !.ran = <<value[2]>> \o @]

\* load(filename, filters=filters, transforms=transforms,
\* environment_transforms=flag) once loads has made the collection c.
\* The operations are those of the URL fragment, then ("filter", x) for
\* x in filters, then, if transforms is not empty, ("transform", x) for x
\* in filters; they are run, then the environment transforms unless flag
\* is False.
load(heap, c, fragment, filters, transforms, flag, entries) ==
    LET withFilters ==
            fragment \o (IF filters.given
                         THEN [k \in 1..Len(filters.list) |-> <<"filter", filters.list[k]>>]
                         ELSE <<>>)
        operations ==
            IF ~(transforms.given /\ transforms.list # <<>>)
            THEN [ok |-> TRUE, ops |-> withFilters, err |-> ""]
            ELSE IF ~filters.given
            THEN [ok |-> FALSE, ops |-> <<>>, err |-> "TypeError"]
            ELSE [ok |-> TRUE, err |-> "",
                  ops |-> withFilters \o
                          [k \in 1..Len(filters.list) |-> <<"transform", filters.list[k]>>]]
        FromEnvironment(applied, env) ==
            [ok |-> env.ok, heap |-> env.heap, coll |-> applied.coll,
             ran |-> applied.ran, env |-> env.ran,
             err |-> IF env.ok THEN "" ELSE "RuntimeError"]
        Applied(applied) ==
            IF ~applied.ok
            THEN [ok |-> FALSE, heap |-> applied.heap, coll |-> c, ran |-> applied.ran,
                  env |-> <<>>, err |-> applied.err]
            ELSE IF flag = "False"
            THEN [ok |-> TRUE, heap |-> applied.heap, coll |-> applied.coll,
                  ran |-> applied.ran, env |-> <<>>, err |-> ""]
            ELSE FromEnvironment(applied,
                                 transform_from_environment(applied.heap,
                                                            Iter(applied.coll), entries))
    IN  IF ~operations.ok
        THEN [ok |-> FALSE, heap |-> heap, coll |-> c, ran |-> <<>>, env |-> <<>>,
              err |-> operations.err]
        ELSE Applied(ApplyOperations(heap, c, operations.ops))

InitLoad ==
    \E n \in 0..MaxRes :
        /\ res = [i \in ResIds |-> Ex1Resource(i)]
        /\ coll = ResourceCollection(res, [i \in 1..n |-> i], "ex1.py")
        /\ out = NoOut
        /\ chk = NoCheck
        /\ environ \in {Unset, <<"bar.py">>}
        /\ cwd = WorkDir
        /\ module = Imported

\* rc = sefara.load("ex1.py#fragment", filters=..., transforms=..., ...)
Load(fragment, filters, transforms, flag) ==
    LET Stored(got) ==
            /\ res' = got.heap
            /\ out' = [op |-> "load", fragment |-> fragment, filters |-> filters,
                       transforms |-> transforms, flag |-> flag, ok |-> got.ok,
                       err |-> got.err, coll |-> got.coll, ran |-> got.ran,
                       env |-> got.env, before |-> res]
    IN  /\ out = NoOut
        /\ Stored(load(res, coll, fragment, filters, transforms, flag, environ))
        /\ UNCHANGED <<coll, chk, environ, cwd, module>>

NextLoad ==
    \E fragment \in {<<>>, <<<<"filter", StrExpr(ETag("gamma"))>>>>,
                      <<<<"transform", <<"path", "path.py">>>>>>},
       filters \in {[given |-> FALSE, list |-> <<>>],
                    [given |-> TRUE, list |-> <<>>],
                    [given |-> TRUE, list |-> <<StrExpr(EName("name"))>>]},
       transforms \in {[given |-> FALSE, list |-> <<>>],
                       [given |-> TRUE, list |-> <<>>],
                       [given |-> TRUE, list |-> <<<<"path", "bar.py">>>>],
                       [given |-> TRUE,
                        list |-> <<<<"path", "path.py">>, <<"path", "bar.py">>>>]},
       flag \in {"None", "True", "False"} :
        Load(fragment, filters, transforms, flag)

SpecLoad == InitLoad /\ [][NextLoad]_vars

\* ------------------------------------------ renames to names already used
\* A transform's statement r.name = n, whatever the names of the others.
RenameAny(i, n) ==
    /\ res' = [res EXCEPT ![i].name = n]
    /\ UNCHANGED <<coll, out, chk, environ, cwd, module>>

\* collection[index], index an int: list(self.resources.values())[index];
\* the dictionary is left alone.
LookupIndex(index) ==
    LET values == Iter(coll)
        n == Len(values)
        got == IF index >= 0 /\ index < n
               THEN [ok |-> TRUE, id |-> values[index + 1], err |-> ""]
               ELSE IF index < 0 /\ index >= -n
               THEN [ok |-> TRUE, id |-> values[n + index + 1], err |-> ""]
               ELSE [ok |-> FALSE, id |-> 0, err |-> "IndexError"]
    IN  /\ out' = [op |-> "getitem, int", index |-> index, ok |-> got.ok,
                   id |-> got.id, err |-> got.err]
        /\ UNCHANGED <<res, coll, chk, environ, cwd, module>>

NextDup ==
    \/ \E i \in ResIds, n \in {NameTable[1], NameTable[2], NameTable[MaxRes + 1]} :
          RenameAny(i, n)
    \/ \E key \in Names : Lookup(key)
    \/ \E index \in {0 - MaxRes - 1, 0 - MaxRes, -1, 0, MaxRes - 1, MaxRes} :
          LookupIndex(index)

SpecDup == InitEx1 /\ [][NextDup]_vars

\* ------------------------------------------- check, twice with one list

InitCheckTwice ==
    \E n \in 0..MaxRes :
        /\ res = [i \in ResIds |-> Ex1Resource(i)]
        /\ coll = ResourceCollection(res, [i \in 1..n |-> i], "ex1.py")
        /\ out = NoOut
        /\ chk = NoCheck
        /\ environ \in EnvironChoices
        /\ cwd = WorkDir
        /\ module = Imported

\* A second check(collection, checkers, ...) with the list object of a
\* check that has begun: the list holds what that check left in it.  out
\* keeps the first check.
CheckAgain(include_environment_checkers) ==
    /\ out = NoOut
    /\ chk.state \in {"suspended", "raised", "done"}
    /\ out' = [op |-> "check", given |-> chk.given, checkers |-> chk.checkers,
               include_environment_checkers |-> chk.include_environment_checkers,
               state |-> chk.state, rows |-> chk.rows]
    /\ chk' = [state |-> "created", given |-> chk.checkers, checkers |-> chk.checkers,
               include_environment_checkers |-> include_environment_checkers,
               generators |-> <<>>, order |-> <<>>, it |-> 0, rows |-> <<>>,
               err |-> <<>>]
    /\ UNCHANGED <<res, coll, environ, cwd, module>>

NextCheckTwice ==
    \/ \E checkers \in UNION {[1..k -> {"ok.py", "path.py"}] : k \in 0..MaxCheckers},
          include \in BOOLEAN :
          CheckCall(checkers, include)
    \/ CheckNext
    \/ \E include \in BOOLEAN : CheckAgain(include)

SpecCheckTwice == InitCheckTwice /\ [][NextCheckTwice]_vars

\* ------------------------------------------- loads of the python format
\* The code given to loads is run statement by statement; it may export
\* resources, register transforms, call loads itself, end or raise.
MaxLoads == 2
MaxRegistered == 1

\* What is known of the loads call that has just ended.
NoLast ==
    [kind |-> "none", depth |-> 0, resources |-> <<>>, names |-> <<>>,
     exported |-> <<>>, registered |-> <<>>, loads |-> 0,
     old_resources |-> <<>>, old_transforms |-> <<>>,
     after_resources |-> <<>>, after_transforms |-> <<>>]

\* The finally block of loads leaving the lists of the code in place.
loadsFinallyKept(m, frame) ==
    m

\* The finally block of loads: the module's lists are what they were
\* before the call.
loadsFinally(m, frame) ==
    [m EXCEPT !._EXPORTED_RESOURCES = frame.old_resources,
              !._TRANSFORMS = frame.old_transforms]

\* for transform in transforms: hooks.transform(rc, transform)
RECURSIVE RunTransforms(_, _, _)
RunTransforms(heap, ids, transforms) ==
    IF transforms = <<>> THEN heap
    ELSE RunTransforms(transform(heap, ids, Head(transforms)).heap, ids, Tail(transforms))

\* What the running code has done is noted in the frame of its loads.
Noted(frames, field, x) ==
    IF frames = <<>> THEN frames
    ELSE [frames EXCEPT ![Len(frames)][field] = Append(@, x)]

InitLoads ==
    /\ res = [i \in ResIds |-> Ex1Resource(i)]
    /\ coll = ResourceCollection(res, <<>>, "None")
    /\ out = [op |-> "python", frames |-> <<>>, made |-> 0, begun |-> 0, last |-> NoLast]
    /\ chk = NoCheck
    /\ environ \in {Unset, <<"bar.py">>}
    /\ cwd = WorkDir
    /\ module = Imported

\* export(name): a Resource is made and appended to the module's list.
Export(name) ==
    LET got == ResourceInitNumbered(name, <<>>, Absent, module.NEXT_RESOURCE_NUM)
        id == out.made + 1
    IN  /\ out.made < MaxRes
        /\ res' = [res EXCEPT ![id] = got.r]
        /\ module' = [module EXCEPT !.NEXT_RESOURCE_NUM = got.NEXT,
                                    !._EXPORTED_RESOURCES = Append(@, id)]
        /\ out' = [out EXCEPT !.made = id, !.frames = Noted(@, "exported", id),
                              !.last = NoLast]
        /\ UNCHANGED <<coll, chk, environ, cwd>>

\* transform_exports(path)
TransformExports(path) ==
    /\ Len(module._TRANSFORMS) < MaxRegistered
    /\ module' = [module EXCEPT !._TRANSFORMS = Append(@, path)]
    /\ out' = [out EXCEPT !.frames = Noted(@, "registered", path), !.last = NoLast]
    /\ UNCHANGED <<res, coll, chk, environ, cwd>>

\* loads(code, format="python", environment_transforms=flag) up to the
\* first statement of the code: the lists are kept and emptied.
LoadsBegin(flag) ==
    /\ out.begun < MaxLoads
    /\ module' = [module EXCEPT !._EXPORTED_RESOURCES = <<>>, !._TRANSFORMS = <<>>]
    /\ out' = [out EXCEPT
                 !.begun = @ + 1,
                 !.last = NoLast,
                 !.frames = Append(@, [old_resources |-> module._EXPORTED_RESOURCES,
                                       old_transforms |-> module._TRANSFORMS,
                                       environment_transforms |-> flag,
                                       exported |-> <<>>, registered |-> <<>>,
                                       loads |-> 0])]
    /\ UNCHANGED <<res, coll, chk, environ, cwd>>

\* The frames once the innermost loads has ended: its caller has made
\* one more call.
Ended(frames) ==
    LET rest == SubSeq(frames, 1, Len(frames) - 1)
    IN  IF rest = <<>> THEN rest ELSE [rest EXCEPT ![Len(rest)].loads = @ + 1]

\* The code ends: the finally block, the collection, the registered
\* transforms, the environment transforms, and the return.
LoadsReturn ==
    /\ out.frames # <<>>
    /\ LET frame == out.frames[Len(out.frames)]
           transforms == module._TRANSFORMS
           resources == module._EXPORTED_RESOURCES
           rc == ResourceCollection(res, resources, "None")
           transformed == RunTransforms(res, Iter(rc), transforms)
           heap == IF frame.environment_transforms
                   THEN transform_from_environment(transformed, Iter(rc), environ).heap
                   ELSE transformed
       IN  /\ module' = loadsFinally(module, frame)
           /\ res' = heap
           /\ coll' = rc
           /\ out' = [out EXCEPT
                        !.frames = Ended(out.frames),
                        !.last = [kind |-> "returned", depth |-> Len(out.frames),
                                  resources |-> Iter(rc),
                                  names |-> [k \in 1..Len(resources) |-> res[resources[k]].name],
                                  exported |-> frame.exported,
                                  registered |-> frame.registered,
                                  loads |-> frame.loads,
                                  old_resources |-> frame.old_resources,
                                  old_transforms |-> frame.old_transforms,
                                  after_resources |-> module'._EXPORTED_RESOURCES,
                                  after_transforms |-> module'._TRANSFORMS]]
    /\ UNCHANGED <<chk, environ, cwd>>

\* The code raises: the finally block, and the exception leaves loads.
LoadsRaise ==
    /\ out.frames # <<>>
    /\ LET frame == out.frames[Len(out.frames)]
       IN  /\ module' = loadsFinally(module, frame)
           /\ out' = [out EXCEPT
                        !.frames = Ended(out.frames),
                        !.last = [kind |-> "raised", depth |-> Len(out.frames),
                                  resources |-> <<>>, names |-> <<>>,
                                  exported |-> frame.exported,
                                  registered |-> frame.registered,
                                  loads |-> frame.loads,
                                  old_resources |-> frame.old_resources,
                                  old_transforms |-> frame.old_transforms,
                                  after_resources |-> module'._EXPORTED_RESOURCES,
                                  after_transforms |-> module'._TRANSFORMS]]
    /\ UNCHANGED <<res, coll, chk, environ, cwd>>

NextLoads ==
    \/ \E name \in {NameTable[1], NoName} : Export(name)
    \/ \E path \in {"bar.py"} : TransformExports(path)
    \/ LoadsBegin(TRUE)
    \/ LoadsReturn
    \/ LoadsRaise

SpecLoads == InitLoads /\ [][NextLoads]_vars

\* ---------------------------------------------------------------- claims
IdsOf(c) == {c.resources[i][2] : i \in 1..Len(c.resources)}

\* C3: after in-place renames to unused names, a lookup by name returns the
\* resource of the collection whose current name is the key, and a lookup
\* by a name no resource currently has fails with KeyError, whatever the
\* interleaving of renames and lookups.
C3_LookupFollowsCurrentName ==
    [][\A key \in Names :
         Lookup(key) =>
           LET holders == {i \in IdsOf(coll) : res[i].name = key}
           IN  IF holders # {}
               THEN out'.ok /\ out'.id \in holders
               ELSE ~out'.ok /\ out'.err = "KeyError"]_vars

\* Two resources have traded names and the lookup of an original name
\* returned its new holder.
C3_Witness ==
    /\ out.op = "getitem" /\ out.ok
    /\ out.key = NameTable[1] /\ out.id # 1
    /\ res[out.id].name = out.key

\* The resources of a sequence of ids on which the expression is truthy.
TruthyOn(ids, expression) ==
    LET Keep(i) == Truthy(evaluate(res[i], expression, RAISE).val)
    IN  SelectSeq(ids, Keep)

\* C1: when the expression evaluates without failure on every resource,
\* filter returns a new collection holding exactly the resources on which
\* the value was truthy, in their original order, under their current
\* names and with the filename of the original collection.
C1_FilterKeepsTruthyInOrder ==
    (/\ out.op = "filter"
     /\ \A i \in IdsOf(coll) : evaluate(res[i], out.expression, RAISE).ok)
    => /\ out.ok
       /\ Iter(out.coll) = TruthyOn(Iter(coll), out.expression)
       /\ \A k \in 1..Len(out.coll.resources) :
            out.coll.resources[k][1] = res[out.coll.resources[k][2]].name
       /\ out.coll.filename = coll.filename

\* A filter kept the first and the third resource and dropped the second.
C1_Witness ==
    /\ out.op = "filter" /\ out.ok
    /\ Iter(out.coll) = <<1, 3>>
    /\ out.coll.filename = "ex1.py"

\* Whether the expression calls on_error anywhere.
RECURSIVE HasOnError(_)
HasOnError(e) ==
    CASE e[1] = "on_error" -> TRUE
      [] e[1] = "not" -> HasOnError(e[2])
      [] e[1] \in {"or", "and"} -> HasOnError(e[2]) \/ HasOnError(e[3])
      [] OTHER -> FALSE

\* The outcome of the chained filters is the outcome of the single filter
\* "(e1) and (e2)": both fail, or both return the same resources in order.
SameAsConjunction ==
    LET both == filter(res, coll, StrExpr(EAnd(out.e1, out.e2)))
    IN  /\ out.ok = both.ok
        /\ out.ok => Iter(out.coll) = Iter(both.coll)

\* C2 as stated: filter(e1).filter(e2) has the outcome of
\* filter("(e1) and (e2)") for every pair of string expressions, also
\* those that call on_error or fail on some resources.
C2_ChainIsConjunction_Original ==
    out.op = "chain" => SameAsConjunction

\* C2 amended: filter(e1).filter(e2) has the outcome of
\* filter("(e1) and (e2)") for every pair of string expressions in which
\* e1 does not call on_error; e2 may call it and either may fail.
C2_ChainIsConjunction ==
    (out.op = "chain" /\ ~HasOnError(out.e1)) => SameAsConjunction

\* A chain whose second filter called on_error and then failed on a
\* resource the first filter kept, and which dropped some resource.
C2_Witness ==
    /\ out.op = "chain" /\ out.ok
    /\ ~HasOnError(out.e1) /\ HasOnError(out.e2)
    /\ \E i \in IdsOf(coll) :
         /\ Truthy(evaluate(res[i], StrExpr(out.e1), RAISE).val)
         /\ ~Eval(out.e2, res[i], RAISE).ok
    /\ Len(Iter(out.coll)) < Len(Iter(coll))
    /\ Len(Iter(out.coll)) > 0

\* "on_error(V) or rest"
IsGuarded(e) == e[1] = "or" /\ e[2][1] = "on_error"
\* The operand that follows the leading on_error calls, and the value of
\* the last of them.
RECURSIVE Operand(_)
Operand(e) == IF IsGuarded(e) THEN Operand(e[3]) ELSE e
RECURSIVE LastFallback(_)
LastFallback(e) == IF IsGuarded(e[3]) THEN LastFallback(e[3]) ELSE e[2][2]

\* C4: when a string expression has called on_error(V) and then fails,
\* evaluate returns the V of the most recent call; when it does not fail,
\* the recorded value is discarded and evaluate returns the expression's
\* own value.
C4_OnErrorFallback ==
    (/\ out.op = "evaluate"
     /\ out.expression[1] = "str"
     /\ IsGuarded(out.expression[2]))
    => LET operand == Eval(Operand(out.expression[2]), res[out.id], RAISE)
       IN  /\ out.ok
           /\ out.val = IF operand.ok THEN operand.val
                        ELSE LastFallback(out.expression[2])

\* on_error was called twice, the operand failed and evaluate returned the
\* value of the second call, which is neither the first nor error_value.
C4_Witness ==
    /\ out.op = "evaluate" /\ out.ok
    /\ out.expression[1] = "str"
    /\ IsGuarded(out.expression[2]) /\ IsGuarded(out.expression[2][3])
    /\ ~Eval(Operand(out.expression[2]), res[out.id], RAISE).ok
    /\ out.val = PyFalse
    /\ out.expression[2][2][2] = PyTrue
    /\ out.error_value = PyInt("0")

\* The expression does not call on_error before the operand that fails.
NotArmed(e) == ~HasOnError(e) \/ (e[1] = "or" /\ ~HasOnError(e[2]))

\* C5: when the evaluation of a string or a callable fails, no error_value
\* was given and on_error was not called before the failure, evaluate
\* raises an error made of the original error, the expression and the
\* resource's name; it returns no value.
C5_UnarmedFailureRaises ==
    (/\ out.op = "evaluate"
     /\ out.error_value = RAISE
     /\ NotArmed(out.expression[2])
     /\ ~Eval(IF HasOnError(out.expression[2]) THEN out.expression[2][2]
              ELSE out.expression[2], res[out.id], RAISE).ok)
    => /\ ~out.ok
       /\ Len(out.err) = 4
       /\ out.err[1] = "ValueError"
       /\ out.err[2] \in {"NameError: path", "AttributeError: path"}
       /\ out.err[3] = out.expression
       /\ out.err[4] = res[out.id].name

\* A callable failed on a resource without a path and evaluate raised.
C5_Witness ==
    /\ out.op = "evaluate" /\ ~out.ok
    /\ out.expression = Callable(EName("path"))
    /\ out.error_value = RAISE
    /\ res[out.id].path = Absent
    /\ out.err[2] = "AttributeError: path"

\* Every expression of the fields evaluates without failure on resource i.
AllEvaluate(i, fields) ==
    \A k \in 1..Len(fields) : evaluate(res[i], StrExpr(fields[k][2]), RAISE).ok

\* The cell of field k for resource i: the extracted value, or the
\* extracted null when the expression failed.
CellOf(i, field) ==
    LET got == evaluate(res[i], StrExpr(field[2]), RAISE)
    IN  Extract(field[1], IF got.ok THEN got.val ELSE None).s

\* C6: with --skip-errors, select emits rows for exactly the resources on
\* which every expression evaluates without failure, in collection order,
\* each row complete; no row for a resource on which an expression fails.
C6_SkipDropsWholeRows ==
    (out.op = "select" /\ out.skip_errors /\ ~out.stop_on_error)
    => LET Kept(i) == AllEvaluate(i, out.fields)
       IN  /\ out.ok
           /\ [k \in 1..Len(out.rows) |-> out.rows[k].id] = SelectSeq(Iter(coll), Kept)
           /\ \A k \in 1..Len(out.rows) :
                out.rows[k].cells =
                    [f \in 1..Len(out.fields) |-> CellOf(out.rows[k].id, out.fields[f])]
           /\ Len(out.rows) <= Len(Iter(coll))

\* C7: with the default policy, select emits one row per resource in
\* collection order, one cell per expression in argument order; the cell
\* of a failed expression holds null, every other the evaluated value.
C7_NullFillsFailedCells ==
    (out.op = "select" /\ ~out.skip_errors /\ ~out.stop_on_error)
    => /\ out.ok
       /\ [k \in 1..Len(out.rows) |-> out.rows[k].id] = Iter(coll)
       /\ \A k \in 1..Len(out.rows) :
            out.rows[k].cells =
                [f \in 1..Len(out.fields) |-> CellOf(out.rows[k].id, out.fields[f])]

\* The call was made with no checker and none comes from the environment.
NoneConfigured ==
    /\ chk.given = <<>>
    /\ ~chk.include_environment_checkers \/ EnvironmentCheckers(environ) = <<>>

\* C8: check with an empty checker list and environment checkers disabled
\* or not configured fails with NoCheckers once it is consumed and yields
\* no row; it does not end as a report does.
C8_NoCheckersRaises ==
    (chk.state \notin {"none", "created"} /\ NoneConfigured)
    => /\ chk.state = "raised"
       /\ chk.err = <<"NoCheckers">>
       /\ chk.rows = <<>>

\* Environment checkers were enabled, the variable held only a blank
\* entry, and check raised NoCheckers on a collection with resources.
C8_Witness ==
    /\ chk.state = "raised" /\ chk.err = <<"NoCheckers">>
    /\ chk.given = <<>> /\ chk.include_environment_checkers
    /\ environ = <<" ">>
    /\ Len(Iter(coll)) > 0

\* The resources generator k yields, in order.
ReportedBy(k) ==
    [p \in 1..Len(chk.generators[k].items) |-> chk.generators[k].items[p][1]]

\* Every checker yields one triple per resource, in collection order.
AllAligned ==
    /\ chk.generators # <<>>
    /\ \A k \in 1..Len(chk.generators) : ReportedBy(k) = Iter(coll)

\* C9: when every checker yields exactly one triple per resource in
\* collection order, check yields one pair per resource, in collection
\* order, whose second component has one (label, attempted, problem)
\* entry per checker, in list order, with the values that checker
\* reported for that resource.
C9_OneRowPerResource ==
    (chk.state \notin {"none", "created"} /\ AllAligned)
    => /\ chk.state \in {"suspended", "done"}
       /\ chk.state = "done" => Len(chk.rows) = Len(Iter(coll))
       /\ Len(chk.rows) <= Len(Iter(coll))
       /\ \A p \in 1..Len(chk.rows) :
            /\ chk.rows[p].resource = Iter(coll)[p]
            /\ chk.rows[p].tuples =
                 [k \in 1..Len(chk.checkers) |->
                    <<chk.checkers[k], chk.generators[k].items[p][2],
                      chk.generators[k].items[p][3]>>]

\* Two different checkers ran to the end over every resource, and one of
\* them did not attempt some resource.
C9_Witness ==
    /\ chk.state = "done" /\ AllAligned
    /\ Len(chk.rows) = MaxRes
    /\ Len(chk.checkers) >= 2 /\ chk.checkers[1] # chk.checkers[2]
    /\ \E p \in 1..Len(chk.rows) : chk.rows[p].tuples[2][2] = FALSE

\* Generator k has yielded, as its p-th item, another resource than the
\* p-th of the collection.
Misreported(k, p) ==
    /\ p <= chk.generators[k].pos
    /\ res[chk.generators[k].items[p][1]] # res[chk.order[p]]

\* C10: if at some position a checker reports another resource than the
\* collection's resource at that position, check fails at that step with
\* an error naming the index of the offending checker and both
\* resources, and yields no row for that position or a later one.
C10_MisalignmentRaises ==
    chk.state \notin {"none", "created"} =>
      \A k \in 1..Len(chk.generators), p \in 1..Len(chk.order) :
        Misreported(k, p) =>
          LET first == Min({j \in 1..Len(chk.generators) : Misreported(j, p)})
          IN  /\ chk.state = "raised"
              /\ chk.err = <<"ValueError", first - 1, chk.checkers[first],
                             res[chk.generators[first].items[p][1]].name,
                             res[chk.order[p]].name>>
              /\ Len(chk.rows) = p - 1

\* Every item generator k has to give reports the collection's resource
\* at its position.
AlignedPrefix(k) ==
    /\ Len(chk.generators[k].items) <= Len(chk.order)
    /\ \A p \in 1..Len(chk.generators[k].items) :
         res[chk.generators[k].items[p][1]] = res[chk.order[p]]

\* Some checker gives fewer items than the collection has resources, and
\* no checker gives a misplaced one.
SomeShort ==
    /\ chk.generators # <<>>
    /\ \A k \in 1..Len(chk.generators) : AlignedPrefix(k)
    /\ \E k \in 1..Len(chk.generators) :
         Len(chk.generators[k].items) < Len(chk.order)

\* C11: if a checker's output has fewer items than the collection has
\* resources, every item it gives being aligned, check fails with the
\* alignment error; it does not end the report normally.
C11_ShortOutputRaises ==
    (chk.state \notin {"none", "created"} /\ SomeShort)
    => /\ chk.state # "done"
       /\ chk.state = "raised" => chk.err[1] = "ValueError"

\* Some checker gives, at a position of the collection, another resource
\* than the collection's.
SomeMisaligned ==
    \E k \in 1..Len(chk.generators) :
        \E p \in 1..Len(chk.generators[k].items) :
            /\ p <= Len(chk.order)
            /\ res[chk.generators[k].items[p][1]] # res[chk.order[p]]

\* C12: when some checker's output is misaligned with the collection at
\* any position, first or later, the consumer of check has received no
\* row when the alignment failure comes.
C12_FailurePrecedesFirstRow ==
    (chk.state \notin {"none", "created"} /\ SomeMisaligned)
    => chk.rows = <<>>

\* C14: for every Tags accepted by construction and every string s,
\* tags.s is True when s is in the set and False otherwise, also for a
\* non-member s that names a set method such as union or add.
C14_AttributeLookupIsMembership ==
    out.op = "tags.attribute"
    => out.value = PyBool(out.attribute \in out.set)

\* A tag is a method of the set type the Tags builds on.
IsSetMethod(tag) == tag \in SetMethods \cup TagsVars

\* C15: constructing a Resource or a Tags fails with a validation error,
\* making no object, whenever a supplied tag does not match the tag
\* pattern or names a method of the underlying set type (add, union,
\* pop); it succeeds for every other tag list.
C15_InvalidTagsRejected ==
    out.op \in {"Tags", "Resource"}
    => LET invalid == \E i \in 1..Len(out.given) :
                         \/ ~MatchesTagPattern(out.given[i])
                         \/ IsSetMethod(out.given[i])
       IN  /\ invalid => (~out.made.ok /\ out.made.err # "")
           /\ ~invalid => out.made.ok

\* The resources of a collection, in iteration order.
ResourcesOf(heap, c) == [p \in 1..Len(Iter(c)) |-> heap[Iter(c)[p]]]

\* The loaded collection has the names of the original in the same order
\* and, per resource, the same attributes and the same tags.
RoundTripEqual ==
    /\ out.rc2.ok
    /\ ResourcesOf(out.rc2.res, out.rc2.coll) = ResourcesOf(res, coll)

\* C13 as stated: for every collection whose attribute values are
\* strings, booleans, null, numbers, lists and nested mappings,
\* loads(to_json(), format="json") gives a collection equal to the
\* original.
C13_JsonRoundTrip_Original ==
    out.op = "roundtrip" => RoundTripEqual

\* The environment variable holds no transform.
NoTransformConfigured == \A k \in 1..Len(environ) : Strip(environ[k]) = ""

\* No two resources of the collection have the same name.
DistinctNames ==
    \A p, q \in 1..Len(Iter(coll)) :
        res[Iter(coll)[p]].name = res[Iter(coll)[q]].name => p = q

\* C13: for every such collection whose resource names are distinct,
\* when no transform is configured in the environment, the round trip
\* gives a collection equal to the original.
C13_JsonRoundTrip ==
    (out.op = "roundtrip" /\ DistinctNames /\ NoTransformConfigured)
    => RoundTripEqual

\* A collection of MaxRes resources, one renamed and one holding a nested
\* mapping, came back equal.
C13_Witness ==
    /\ out.op = "roundtrip" /\ RoundTripEqual
    /\ Len(Iter(coll)) = MaxRes
    /\ res[1].path = PyDict("{'k': [1, 2]}")
    /\ res[2].name # NameTable[2]
    /\ NoTransformConfigured

C18_FilterSharesInstances ==
    [][/\ \A expression \in ViewExprs :
            FilterView(expression) =>
              /\ coll' = coll /\ res' = res
              /\ out'.ok => \A p \in 1..Len(Iter(out'.coll)) :
                               \E q \in 1..Len(Iter(coll)) :
                                   Iter(out'.coll)[p] = Iter(coll)[q]
       /\ \A through \in {"view", "original"}, p \in 1..MaxRes, v \in {PyStr("b"), PyInt("0")} :
            SetPath(through, p, v) =>
              LET here == IF through = "view" THEN out.coll ELSE coll
                  there == IF through = "view" THEN coll ELSE out.coll
                  name == res[Iter(here)[p]].name
              IN  /\ Iter(coll') = Iter(coll) /\ Iter(out'.coll) = Iter(out.coll)
                  /\ through = "view" => \E q \in 1..Len(Iter(there)) :
                                             Iter(there)[q] = Iter(here)[p]
                  /\ \A q \in 1..Len(Iter(there)) :
                        res[Iter(there)[q]].name = name
                            => res'[Iter(there)[q]].path = v]_vars

\* A path set through the filtered collection, which holds fewer
\* resources than the original, shows in the original.
C18_Witness ==
    /\ out.op = "filter, set" /\ out.through = "view"
    /\ Len(Iter(out.coll)) < Len(Iter(coll))
    /\ \E q \in 1..Len(Iter(coll)) :
         /\ Iter(coll)[q] = out.id
         /\ res[Iter(coll)[q]].path = out.value
    /\ out.value = PyStr("b")

\* C19: run_hook with a callable invokes it exactly once with the
\* collection and the extra arguments and returns its result; with a path
\* it executes the file once, then invokes the binding of the entry-point
\* name with the collection and the extra arguments; if the file defines
\* no such binding it fails with the hook-resolution error and invokes
\* nothing on the collection.
C19_RunHookDispatch ==
    out.op = "run_hook" =>
      LET once == /\ Len(out.calls) = 1
                  /\ out.calls[1].function = out.ref
                  /\ out.calls[1].collection = coll
                  /\ out.calls[1].args = out.args
                  /\ out.ok => out.result = <<out.ref, coll, out.args>>
      IN  /\ IsCallable(out.ref) => once /\ out.execs = <<>>
          /\ (~IsCallable(out.ref) /\ FileExists(out.ref) /\ TopLevel(out.ref) # "raise")
               => /\ Len(out.execs) = 1
                  /\ IF out.name \in Defines(out.ref) THEN once
                     ELSE ~out.ok /\ out.err = "AttributeError" /\ out.calls = <<>>

\* A file that defines transform was asked for check: the file ran once,
\* nothing was invoked, and the resolution error was raised.
C19_Witness ==
    /\ out.op = "run_hook" /\ out.ref = "hooks/ok.py" /\ out.name = "check"
    /\ ~out.ok /\ out.err = "AttributeError"
    /\ Len(out.execs) = 1 /\ out.calls = <<>>
    /\ Len(Iter(coll)) = MaxRes

C16_TagsAlwaysValidTagSet ==
    out.op = "resource"
    => /\ out.r.tags.kind = "Tags"
       /\ \A tag \in out.r.tags.members : check_valid_tag(tag) = ""

\* The directory that contains the hook file, seen from the directory the
\* call was made in.
ContainingDirectory(filename, wd) ==
    IF Dirname(filename) = "" THEN wd ELSE ChDir(wd, Dirname(filename))

\* C21: while the entry-point function of a path-based hook is invoked
\* on the collection, the working directory of the process is the
\* directory that contains the hook file.
C21_BodyRunsInHookDirectory ==
    (out.op = "run_hook" /\ ~IsCallable(out.ref))
    => \A k \in 1..Len(out.calls) :
          out.calls[k].cwd = ContainingDirectory(out.ref, out.before)

\* The non-blank entries of the variable, stripped, in listed order.
Listed == SelectSeq([k \in 1..Len(environ) |-> Strip(environ[k])], LAMBDA t : t # "")

\* How many of the listed transforms are started: all of them, or those
\* up to the first that raises.
Started ==
    LET raising == {k \in 1..Len(Listed) : Listed[k] = "raise.py"}
    IN  IF raising = {} THEN Len(Listed) ELSE Min(raising)

\* The resources after the first k listed transforms have run in order,
\* each on what the one before left.
RECURSIVE AfterListed(_)
AfterListed(k) ==
    IF k = 0 THEN out.before
    ELSE transform(AfterListed(k - 1), Iter(coll), Listed[k]).heap

\* C22: transform_from_environment runs one transform per non-blank entry
\* of the list, in listed order, each on what the earlier ones left; blank
\* entries run nothing, and after a transform that raises no later one is
\* run.
C22_EnvironmentTransformsInOrder ==
    out.op = "transform_from_environment"
    => /\ out.ran = SubSeq(Listed, 1, Started)
       /\ out.ok = (Started = Len(Listed) /\ "raise.py" \notin Range(Listed))
       /\ res = AfterListed(Started)

\* bar.py ran before path.py, with a blank entry between them, and the
\* path of the first resource was made of the name bar.py had given it.
C22_Witness ==
    /\ out.op = "transform_from_environment" /\ out.ok
    /\ out.ran = <<"bar.py", "path.py">>
    /\ Len(environ) = 3
    /\ Len(Iter(coll)) >= 1
    /\ res[1].path = PyStr("bar-" \o NameTable[1])

\* The value of the name path on resource i when a missing attribute is
\* bound to null.
PathOrNull(i) == IF res[i].path = Absent THEN None ELSE res[i].path

\* C23: when a filter expression names an attribute that some resource
\* of the collection has and the evaluated resource lacks, the name is
\* bound to null there and the evaluation does not fail: filter("path")
\* keeps the resources whose path is truthy and drops those without one.
C23_MissingAttributeIsNull ==
    (/\ out.op = "filter"
     /\ out.expression = StrExpr(EName("path"))
     /\ \E p \in 1..Len(Iter(coll)) : res[Iter(coll)[p]].path # Absent)
    => /\ out.ok
       /\ Iter(out.coll) = SelectSeq(Iter(coll), LAMBDA i : Truthy(PathOrNull(i)))

\* C24: every Resource constructed without a name is named resource-N, N
\* the value of a process-wide counter that only increases: two resources
\* constructed without a name have different names, whatever was
\* constructed between them, and a construction with an explicit name
\* does not advance the counter.
C24_GeneratedNamesDiffer ==
    out.op = "resources"
    => LET made == out.made
           Unnamed == {k \in 1..Len(made) : made[k].given = NoName /\ made[k].ok}
       IN  /\ \A k \in Unnamed : made[k].name = GeneratedName(made[k].before)
           /\ \A k \in 1..Len(made) : made[k].before <= made[k].after
           /\ \A k \in 1..(Len(made) - 1) : made[k].after = made[k + 1].before
           /\ made[Len(made)].after = module.NEXT_RESOURCE_NUM
           /\ \A j, k \in Unnamed : j # k => made[j].name # made[k].name
           /\ \A k \in 1..Len(made) :
                made[k].given # NoName => made[k].after = made[k].before

\* Two resources without a name were constructed around one with an
\* explicit name, and they are resource-1 and resource-2.
C24_Witness ==
    /\ out.op = "resources" /\ Len(out.made) = 3
    /\ out.made[1].given = NoName /\ out.made[1].name = "resource-1"
    /\ out.made[2].given = "d1" /\ out.made[2].ok
    /\ out.made[3].given = NoName /\ out.made[3].name = "resource-2"

\* C25: evaluating a string expression on a resource leaves the
\* attributes and the tags of the resource as they were, also when the
\* expression uses the resource binding.
C25_EvaluateLeavesResource ==
    (out.op = "evaluate" /\ out.expression[1] = "str")
    => res[out.id] = out.before

\* The transforms named by a list of operations or of paths, in order.
PathsOf(list) == [k \in 1..Len(list) |-> list[k][2]]
FragmentTransforms(fragment) ==
    PathsOf([k \in 1..Len(SelectSeq(fragment, LAMBDA o : o[1] = "transform")) |->
                SelectSeq(fragment, LAMBDA o : o[1] = "transform")[k][2]])

\* C26: every transform passed in the transforms argument of load is run
\* on the loaded collection, after the operations of the URL fragment and
\* the filters argument and before the environment transforms, whether or
\* not filters is given.
C26_TransformsArgumentRuns ==
    out.op = "load"
    => /\ out.ok
       /\ out.ran = FragmentTransforms(out.fragment) \o PathsOf(out.transforms.list)

\* How many items generator k has been asked for.
Advanced(k) == chk.generators[k].pos

\* C27: check takes the checkers' sequences in lockstep: no checker is
\* called before the first row is asked for; when the row of the k-th
\* resource has been yielded every checker has been advanced exactly k
\* times and none is advanced further until the next row is asked for;
\* within a step the checkers are advanced in list order, so that a step
\* which ends early has advanced a checker only if it advanced all the
\* checkers before it.
C27_Lockstep ==
    /\ chk.state = "created" => chk.generators = <<>>
    /\ chk.state = "suspended"
       => /\ Len(chk.rows) >= 1
          /\ chk.it = Len(chk.rows)
          /\ \A k \in 1..Len(chk.generators) : Advanced(k) = Len(chk.rows)
    /\ (chk.state \in {"raised", "done"} /\ chk.generators # <<>>)
       => /\ \A k \in 1..Len(chk.generators) :
                Advanced(k) \in {Len(chk.rows), Len(chk.rows) + 1}
          /\ \A j, k \in 1..Len(chk.generators) : j < k => Advanced(j) >= Advanced(k)

\* Two rows have been yielded to the consumer of a check with two
\* checkers, and a third resource has not been looked at yet.
C27_Witness ==
    /\ chk.state = "suspended"
    /\ Len(chk.generators) >= 2
    /\ Len(chk.rows) = 2
    /\ Len(chk.order) > 2
    /\ \A k \in 1..Len(chk.generators) :
         Advanced(k) = 2 /\ Len(chk.generators[k].items) > 2

\* C28: lookups by name and by index never change which resources the
\* collection holds or their order: after any renames (also to a name
\* another resource has) and any lookups, iterating the collection
\* yields every resource it was constructed with, once, in insertion
\* order, and its length is unchanged.
C28_LookupKeepsResources ==
    /\ Iter(coll) = [i \in 1..MaxRes |-> i]
    /\ Len(coll.resources) = MaxRes

\* C29: check leaves the list of checkers it is given unchanged: when
\* check is run twice with the same list object and environment
\* checkers enabled, the second run is given the list the first was
\* given and runs the same checkers as the first, each environment
\* checker once.
C29_CheckersListUnchanged ==
    (/\ out.op = "check"
     /\ out.include_environment_checkers
     /\ chk.include_environment_checkers
     /\ chk.state # "created")
    => /\ chk.given = out.given
       /\ chk.checkers = out.checkers
       /\ chk.checkers = out.given \o EnvironmentCheckers(environ)

PairwiseDistinct(s) == \A j, k \in 1..Len(s) : j # k => s[j] # s[k]

\* C30, as stated: loads with the python format returns a collection
\* holding exactly the resources its code exported, in export order, and
\* leaves the module's lists of exported resources and registered
\* transforms as they were before the call, whether the code ended or
\* raised and whether or not the code ran a load of its own.
C30_LoadsIsolatesExports_Original ==
    /\ out.last.kind # "none"
       => /\ out.last.after_resources = out.last.old_resources
          /\ out.last.after_transforms = out.last.old_transforms
    /\ out.last.kind = "returned" => out.last.resources = out.last.exported
    /\ out.frames # <<>>
       => /\ module._EXPORTED_RESOURCES = out.frames[Len(out.frames)].exported
          /\ module._TRANSFORMS = out.frames[Len(out.frames)].registered

\* C30, amended: the same, for code whose exports have pairwise distinct
\* names.
C30_LoadsIsolatesExports ==
    /\ out.last.kind # "none"
       => /\ out.last.after_resources = out.last.old_resources
          /\ out.last.after_transforms = out.last.old_transforms
    /\ (out.last.kind = "returned" /\ PairwiseDistinct(out.last.names))
       => out.last.resources = out.last.exported
    /\ out.frames # <<>>
       => /\ module._EXPORTED_RESOURCES = out.frames[Len(out.frames)].exported
          /\ module._TRANSFORMS = out.frames[Len(out.frames)].registered

\* An outer loads has returned its own exports although something
\* was exported before it began and the load its code ran in between
\* exported and registered something else.
C30_Witness ==
    /\ out.last.kind = "returned" /\ out.last.depth = 1
    /\ out.last.loads = 1
    /\ out.last.old_resources # <<>>
    /\ Len(out.last.exported) >= 1
    /\ out.last.resources = out.last.exported
    /\ \E id \in 1..out.made :
         id \notin Range(out.last.exported) \cup Range(out.last.old_resources)

====
